---- MODULE Spec2Model ----
(***************************************************************************)
(* FpDebug (valgrind/fpdebug/fd_main.c): the shadow-value store, the       *)
(* carrier transfers, the operation evaluators, the mean-error statistics  *)
(* and the client requests, as a state machine at the level of the         *)
(* run-time callbacks that the instrumented code invokes.                  *)
(*                                                                         *)
(* Numbers.  An MPFR number is a record [k, v]: k = "fin" with the integer *)
(* value v, k = "nan", or k = "inf" with sign v.  All finite values of the *)
(* model are integers below 2^31, so every precision of at least 31 bits   *)
(* holds them exactly; precision 24 does not hold 2^24 + 1.  An mpfr_t     *)
(* variable is a record [prec, x] of its precision and its number.         *)
(***************************************************************************)
EXTENDS Integers, Sequences, FiniteSets, TLC

(* ---- program constants ---- *)
MAX_STAGES == 100
MAX_TEMPS == 1000
MAX_REGISTERS == 1000
CANCEL_LIMIT == 10
DEFAULT_PRECISION == 120
FLOAT_PRECISION == 24
DOUBLE_PRECISION == 53

(* ---- bounds of the model ---- *)
NumTemps == 2
NumThreads == 2
NumOffsets == 1
NumAddrs == 1
NumOrigins == 4
MaxBlocks == 3
MaxOpCount == 5
MaxMeanCount == 5

Temps == 0 .. (NumTemps - 1)
Threads == 1 .. NumThreads
Offsets == 0 .. (NumOffsets - 1)
Addrs == 1 .. NumAddrs
Origins == 1 .. NumOrigins
NoTmp == 0 - 1

(* ---- MPFR numbers ---- *)
Fin(n) == [k |-> "fin", v |-> n]
NaN == [k |-> "nan", v |-> 0]
PInf == [k |-> "inf", v |-> 1]
NInf == [k |-> "inf", v |-> 0 - 1]

AbsInt(n) == IF n < 0 THEN 0 - n ELSE n
SgnInt(n) == IF n < 0 THEN 0 - 1 ELSE IF n > 0 THEN 1 ELSE 0
MaxInt(a, b) == IF a > b THEN a ELSE b

RECURSIVE Pow2(_)
Pow2(n) == IF n <= 0 THEN 1 ELSE 2 * Pow2(n - 1)

RECURSIVE BitLen(_)
BitLen(n) == IF n <= 0 THEN 0 ELSE 1 + BitLen(n \div 2)

mpfr_nan_p(x) == x.k = "nan"
mpfr_inf_p(x) == x.k = "inf"
mpfr_zero_p(x) == x.k = "fin" /\ x.v = 0
mpfr_regular_p(x) == x.k = "fin" /\ x.v # 0
mpfr_sgn(x) == SgnInt(x.v)

(* exponent e of a regular number: |x| lies in [2^(e-1), 2^e) *)
mpfr_get_exp(x) == BitLen(AbsInt(x.v))

(* round-to-nearest-even of the integer n to p significant bits: the *)
(* quotient q and the remainder r of |n| by the unit s of the last bit *)
roundHalfEven(q, r, s) ==
  IF (2 * r > s) \/ (2 * r = s /\ q % 2 = 1) THEN q + 1 ELSE q

roundToUnit(n, s) ==
  SgnInt(n) * roundHalfEven(AbsInt(n) \div s, AbsInt(n) % s, s) * s

RoundInt(n, p) ==
  IF BitLen(AbsInt(n)) <= p THEN n
  ELSE roundToUnit(n, Pow2(BitLen(AbsInt(n)) - p))

RoundNum(x, p) == IF x.k = "fin" THEN Fin(RoundInt(x.v, p)) ELSE x

(* mpfr_cmp: sign of a - b; 0 (with the erange flag) when either is NaN *)
mpfr_cmp(a, b) ==
  IF mpfr_nan_p(a) \/ mpfr_nan_p(b) THEN 0
  ELSE IF a.k = "inf" /\ b.k = "inf" THEN SgnInt(a.v - b.v)
  ELSE IF a.k = "inf" THEN a.v
  ELSE IF b.k = "inf" THEN 0 - b.v
  ELSE SgnInt(a.v - b.v)

NumAdd(a, b) ==
  IF mpfr_nan_p(a) \/ mpfr_nan_p(b) THEN NaN
  ELSE IF a.k = "inf" /\ b.k = "inf" THEN (IF a.v = b.v THEN a ELSE NaN)
  ELSE IF a.k = "inf" THEN a
  ELSE IF b.k = "inf" THEN b
  ELSE Fin(a.v + b.v)

NumNeg(a) == IF mpfr_nan_p(a) THEN NaN ELSE [a EXCEPT !.v = 0 - a.v]
NumAbs(a) == IF mpfr_nan_p(a) THEN NaN ELSE [a EXCEPT !.v = AbsInt(a.v)]
NumSub(a, b) == NumAdd(a, NumNeg(b))

NumMul(a, b) ==
  IF mpfr_nan_p(a) \/ mpfr_nan_p(b) THEN NaN
  ELSE IF a.k = "inf" \/ b.k = "inf"
       THEN (IF mpfr_zero_p(a) \/ mpfr_zero_p(b) THEN NaN
             ELSE [k |-> "inf", v |-> SgnInt(a.v) * SgnInt(b.v)])
  ELSE Fin(a.v * b.v)

(* mpfr_min / mpfr_max: a NaN operand yields the other operand *)
NumMin(a, b) ==
  IF mpfr_nan_p(a) THEN b ELSE IF mpfr_nan_p(b) THEN a
  ELSE IF mpfr_cmp(a, b) <= 0 THEN a ELSE b
NumMax(a, b) ==
  IF mpfr_nan_p(a) THEN b ELSE IF mpfr_nan_p(b) THEN a
  ELSE IF mpfr_cmp(a, b) >= 0 THEN a ELSE b

(* ---- mpfr_t variables ---- *)
mpfr_init(p) == [x |-> NaN, prec |-> p]
mpfr_set_prec(m, p) == [x |-> NaN, prec |-> p]
mpfr_set(m, x) == [m EXCEPT !.x = RoundNum(x, m.prec)]

(* ---- guest IEEE values: a width and a number ---- *)
F32(n) == [x |-> n, ty |-> "F32"]
F64(n) == [x |-> n, ty |-> "F64"]
BigDouble == Fin(Pow2(FLOAT_PRECISION) + 1)
GuestZero == F64(Fin(0))

(* mpfr_set_flt / mpfr_set_d: the guest value rounded to the target precision *)
mpfr_set_ieee(m, g) == mpfr_set(m, g.x)
(* mpfr_get_flt / mpfr_get_d: the number rounded to the IEEE width *)
mpfr_get_flt(m) == F32(RoundNum(m.x, FLOAT_PRECISION))
mpfr_get_d(m) == F64(RoundNum(m.x, DOUBLE_PRECISION))

(* ---- shadow values ---- *)
NULL ==
  [alloc |-> FALSE, active |-> FALSE, version |-> 0, opCount |-> 0,
   origin |-> 0, canceled |-> 0, cancelOrigin |-> 0,
   orgType |-> "Ot_INVALID", Org |-> Fin(0),
   value |-> mpfr_init(DEFAULT_PRECISION),
   midValue |-> mpfr_init(DEFAULT_PRECISION),
   oriValue |-> mpfr_init(DEFAULT_PRECISION)]

(* canceled and Org are left unset by the allocation; every handler that *)
(* allocates writes them (directly or by copyShadowValue) before it ends *)
initShadowValue ==
  [alloc |-> TRUE, active |-> TRUE, version |-> 0, opCount |-> 0,
   origin |-> 0, canceled |-> 0, cancelOrigin |-> 0,
   orgType |-> "Ot_INVALID", Org |-> Fin(0),
   value |-> mpfr_init(DEFAULT_PRECISION),
   midValue |-> mpfr_init(DEFAULT_PRECISION),
   oriValue |-> mpfr_init(DEFAULT_PRECISION)]

(* a copy that leaves the operation count of the destination as it is *)
copyKeepingCount(newSv, sv, sim) ==
  [newSv EXCEPT !.value = mpfr_set(IF sim THEN mpfr_set_prec(newSv.value, sv.value.prec)
                                   ELSE newSv.value, sv.value.x),
                !.origin = sv.origin,
                !.canceled = sv.canceled,
                !.cancelOrigin = sv.cancelOrigin,
                !.orgType = sv.orgType,
                !.Org = sv.Org,
                !.midValue = mpfr_set(IF sim
                                      THEN mpfr_set_prec(newSv.midValue, sv.midValue.prec)
                                      ELSE newSv.midValue, sv.midValue.x),
                !.oriValue = mpfr_set(IF sim
                                      THEN mpfr_set_prec(newSv.oriValue, sv.oriValue.prec)
                                      ELSE newSv.oriValue, sv.oriValue.x)]

(* a copy that leaves the type of the original value unset *)
copyShadowValueUntyped(newSv, sv, sim) ==
  [newSv EXCEPT !.value = mpfr_set(newSv.value, sv.value.x),
                !.opCount = sv.opCount,
                !.origin = sv.origin,
                !.canceled = sv.canceled,
                !.cancelOrigin = sv.cancelOrigin,
                !.orgType = "Ot_INVALID",
                !.Org = sv.Org,
                !.midValue = mpfr_set(newSv.midValue, sv.midValue.x),
                !.oriValue = mpfr_set(newSv.oriValue, sv.oriValue.x)]

copyShadowValue(newSv, sv, sim) ==
  LET v == IF sim THEN mpfr_set_prec(newSv.value, sv.value.prec) ELSE newSv.value
      m == IF sim THEN mpfr_set_prec(newSv.midValue, sv.midValue.prec) ELSE newSv.midValue
      o == IF sim THEN mpfr_set_prec(newSv.oriValue, sv.oriValue.prec) ELSE newSv.oriValue
  IN [newSv EXCEPT !.value = mpfr_set(v, sv.value.x),
                   !.opCount = sv.opCount,
                   !.origin = sv.origin,
                   !.canceled = sv.canceled,
                   !.cancelOrigin = sv.cancelOrigin,
                   !.orgType = sv.orgType,
                   !.Org = sv.Org,
                   !.midValue = mpfr_set(m, sv.midValue.x),
                   !.oriValue = mpfr_set(o, sv.oriValue.x)]

VARIABLES
  clo_analyze, clo_simulateOriginal, clo_computeMeanValue, clo_ignore_end,
  sbExecuted, inBlock, tid, assigned, tmpInstead,
  localTemps, threadRegisters, globalMemory,
  guestTmp, guestMem,
  argX, meanValues, assertFailed,
  clo_detect_pso, unitExp, clo_goto_shadow_branch,
  clo_track_int, clo_ignoreLibraries, sbIn, sbOut, introducedError, tmpInReg,
  detectedPSO, errorMap, findFirstPSO, finishPSO,
  stages, stageReports, activeStages, avMallocs, avFrees,
  lastOp, svWritten, memWrite, memFresh, regWrite, drifted, evalCount, observed

cloVars == <<clo_simulateOriginal, clo_computeMeanValue, clo_ignore_end,
             clo_detect_pso, unitExp, clo_goto_shadow_branch,
             clo_track_int, clo_ignoreLibraries, sbIn, sbOut, introducedError>>
(* the options and the table of the forward pass, which only a Put and *)
(* the entry of a block update                                        *)
optVars == <<cloVars, tmpInReg>>
psoVars == <<detectedPSO, errorMap, findFirstPSO, finishPSO>>
blockVars == <<sbExecuted, inBlock, tid, assigned, tmpInstead>>
stageVars == <<stages, stageReports, activeStages>>
storeVars == <<localTemps, threadRegisters, globalMemory, avMallocs>>
guestVars == <<guestTmp, guestMem>>
evalVars == <<argX, meanValues, psoVars, stageVars, avFrees>>
histVars == <<svWritten, memWrite, memFresh, regWrite, drifted, evalCount, observed>>
vars == <<clo_analyze, optVars, blockVars, storeVars, guestVars, evalVars,
          assertFailed, lastOp, histVars>>

(* initShadowValue counts its calls in avMallocs: the calls of a step are *)
(* the entries of the three tables that it takes from NULL to allocated  *)
mallocs(old, new) == Cardinality({k \in DOMAIN new : new[k].alloc /\ ~old[k].alloc})

countMallocs ==
  avMallocs' = avMallocs + mallocs(localTemps, localTemps')
                         + mallocs(threadRegisters, threadRegisters')
                         + mallocs(globalMemory, globalMemory')

(* a lookup that ignores the version stamp *)
getTempAnyVersion(tmp) == localTemps[tmp]

getTemp(tmp) ==
  IF localTemps[tmp].alloc /\ localTemps[tmp].version = sbExecuted
  THEN localTemps[tmp] ELSE NULL

setTemp(tmp) ==
  IF localTemps[tmp].alloc
  THEN [localTemps[tmp] EXCEPT !.active = TRUE, !.version = sbExecuted]
  ELSE [initShadowValue EXCEPT !.version = sbExecuted]

NoOp == [canceled |-> 0, kind |-> "none", addr |-> 0, op |-> "none",
         wrTmp |-> NoTmp, args |-> <<>>, srcs |-> <<>>, fresh |-> {},
         gotSV |-> FALSE, prev |-> "none", guest |-> GuestZero, mates |-> {},
         ret |-> "none", notice |-> FALSE, operands |-> <<>>, condVal |-> 0]

ScratchNames == {"arg1tmpX", "arg1midX", "arg1oriX", "arg2tmpX", "arg2midX",
                 "arg2oriX", "arg3tmpX", "arg3midX", "arg3oriX"}

(* ---- relative errors: fractions n/d, NaN, or +Inf ---- *)
RECURSIVE Gcd(_, _)
Gcd(a, b) == IF b = 0 THEN a ELSE Gcd(b, a % b)

RelFin(n, d) == LET g == Gcd(n, d) IN [n |-> n \div g, k |-> "fin", d |-> d \div g]
RelNaN == [n |-> 0, k |-> "nan", d |-> 1]
RelInf == [n |-> 1, k |-> "inf", d |-> 1]
RelZero == [n |-> 0, k |-> "fin", d |-> 1]

(* |mpfr_reldiff(b, c)| = |b - c| / |b| with MPFR's singular cases *)
absRelDiff(b, c) ==
  IF mpfr_nan_p(b) \/ mpfr_nan_p(c) THEN RelNaN
  ELSE IF mpfr_inf_p(b)
       THEN (IF mpfr_inf_p(c) /\ c.v = b.v THEN RelZero ELSE RelNaN)
  ELSE IF mpfr_inf_p(c) THEN RelInf
  ELSE IF mpfr_zero_p(b) THEN RelFin(1, 1)
  ELSE RelFin(AbsInt(b.v - c.v), AbsInt(b.v))

(* mpfr_cmp(a, b) > 0 on relative errors: never with a NaN operand *)
relGreater(a, b) ==
  IF a.k = "nan" \/ b.k = "nan" THEN FALSE
  ELSE IF a.k = "inf" THEN b.k # "inf"
  ELSE IF b.k = "inf" THEN FALSE
  ELSE IF a.d = b.d THEN a.n > b.n
  ELSE a.n * b.d > b.n * a.d

mpfr_cmp_ui0(x) == IF mpfr_nan_p(x) THEN 0 ELSE IF mpfr_inf_p(x) THEN x.v ELSE SgnInt(x.v)

meanRelErrorOf(shadow, meanOrg) ==
  IF mpfr_cmp_ui0(meanOrg) # 0 \/ mpfr_cmp_ui0(shadow) # 0
  THEN absRelDiff(shadow, meanOrg) ELSE RelZero

NoMean == [count |-> 0, max |-> RelZero, canceledMax |-> 0, arg1 |-> 0, arg2 |-> 0]

(* the entry of the mean-value table after one more evaluation *)
meanUpdated(val, meanRelError, canceled, arg1, arg2) ==
  IF val.count = 0
  THEN [count |-> 1, max |-> meanRelError, canceledMax |-> canceled,
        arg1 |-> arg1, arg2 |-> arg2]
  ELSE [count |-> val.count + 1,
        max |-> IF relGreater(meanRelError, val.max) THEN meanRelError ELSE val.max,
        canceledMax |-> IF canceled > val.canceledMax THEN canceled
                        ELSE val.canceledMax,
        arg1 |-> IF relGreater(meanRelError, val.max) THEN arg1 ELSE val.arg1,
        arg2 |-> IF relGreater(meanRelError, val.max) THEN arg2 ELSE val.arg2]

(* statistics that leave out the evaluations without an error *)
updateMeanValueOfErrors(key, shadow, meanOrg, canceled, arg1, arg2) ==
  IF meanRelErrorOf(shadow, meanOrg) = RelZero THEN meanValues
  ELSE [meanValues EXCEPT ![key] =
          meanUpdated(meanValues[key], meanRelErrorOf(shadow, meanOrg), canceled,
                      arg1, arg2)]

updateMeanValue(key, shadow, meanOrg, canceled, arg1, arg2) ==
  [meanValues EXCEPT ![key] =
     meanUpdated(meanValues[key], meanRelErrorOf(shadow, meanOrg), canceled, arg1, arg2)]

(* ---- the detector of precision-specific operations ---- *)
PSO_INFLATION_THRESHOLD == 1000000

(* PSO_OV_ZERO_BOUND (1e-9) and PSO_SV_ZERO_BOUND (1e-15) counted in the *)
(* guest's unit 2^-unitExp: x < bound iff x < the next whole multiple    *)
ovZeroUnits == IF unitExp = 0 THEN 1 ELSE 1152921505
svZeroUnits == IF unitExp = 0 THEN 1 ELSE 1153

(* mpfr_cmp_d(|x|, bound) < 0: never with a NaN *)
belowBound(x, units) == x.k = "fin" /\ AbsInt(x.v) < units

(* mpfr_cmp_ui(rel, 0) != 0 on a relative error: a NaN compares as 0 *)
relNonZero(r) == r.k = "inf" \/ (r.k = "fin" /\ r.n # 0)

(* mpfr_max on relative errors: a NaN operand is ignored *)
relMax(a, b) ==
  IF a.k = "nan" THEN b ELSE IF b.k = "nan" THEN a
  ELSE IF relGreater(b, a) THEN b ELSE a

(* computeRelativeError: rel keeps its initial NaN when the detector is *)
(* off or finished; an operand without shadow value has error 0         *)
computeRelativeError(svalue) ==
  IF ~clo_detect_pso \/ finishPSO THEN RelNaN
  ELSE IF svalue.alloc
       THEN (IF mpfr_cmp_ui0(svalue.value.x) # 0 \/ mpfr_cmp_ui0(svalue.Org) # 0
             THEN absRelDiff(svalue.value.x, svalue.Org) ELSE RelZero)
       ELSE RelZero

(* mpfr_cmp_d(inflation, PSO_INFLATION_THRESHOLD) >= 0, which holds for *)
(* a NaN inflation as well, with inflation = |orel / irel|, or orel     *)
(* where irel compares equal to 0                                       *)
inflated(irel, orel) ==
  IF relNonZero(irel)
  THEN (IF orel.k = "nan" THEN TRUE
        ELSE IF irel.k = "inf" THEN orel.k = "inf"
        ELSE IF orel.k = "inf" THEN TRUE
        ELSE (orel.n * irel.d) \div (orel.d * irel.n) >= PSO_INFLATION_THRESHOLD)
  ELSE IF relNonZero(orel)
       THEN (orel.k = "inf" \/ orel.n \div orel.d >= PSO_INFLATION_THRESHOLD)
       ELSE FALSE

(* the counters of one origin after one more analysed result *)
counted(cnt, isInflated, nearZero) ==
  [errCnt |-> cnt.errCnt + (IF isInflated THEN 1 ELSE 0),
   ovCnt |-> cnt.ovCnt + (IF isInflated /\ nearZero THEN 1 ELSE 0),
   totalCnt |-> cnt.totalCnt + 1,
   present |-> TRUE]

(* the detector's state after analyzePSO(irel, o); touching errorMap    *)
(* before the first run dereferences a null table, and after a run a    *)
(* destructed one, which may crash or still answer from the freed nodes *)
psoState(crash) ==
  [errorMap |-> errorMap, findFirstPSO |-> findFirstPSO, crash |-> crash]

analyzeCount(o, isInflated, crash) ==
  IF crash THEN psoState(TRUE)
  ELSE [errorMap |-> [errorMap EXCEPT !.nodes[o.origin] =
                        counted(@, isInflated,
                                belowBound(o.Org, ovZeroUnits)
                                /\ belowBound(o.value.x, svZeroUnits))],
        findFirstPSO |-> isInflated,
        crash |-> FALSE]

(* analyzePSO counting an origin whether or not it was detected before *)
analyzePSORecounting(irel, o, freedCrash) ==
  IF findFirstPSO \/ ~clo_detect_pso \/ finishPSO THEN psoState(FALSE)
  ELSE IF o.orgType = "Ot_INVALID" THEN psoState(TRUE)
  ELSE analyzeCount(o, inflated(irel, computeRelativeError(o)),
                    errorMap.table = "null"
                    \/ (errorMap.table = "freed" /\ freedCrash))

analyzePSO(irel, o, freedCrash) ==
  IF findFirstPSO \/ ~clo_detect_pso \/ finishPSO THEN psoState(FALSE)
  ELSE IF o.orgType = "Ot_INVALID" THEN psoState(TRUE)
  ELSE IF detectedPSO[o.origin].present THEN psoState(FALSE)
  ELSE analyzeCount(o, inflated(irel, computeRelativeError(o)),
                    errorMap.table = "null"
                    \/ (errorMap.table = "freed" /\ freedCrash))

needFix(addr) == clo_detect_pso /\ detectedPSO[addr].present

(* ---- state transfers ---- *)

(* the temp whose shadow value stands for the data temp (tmpInstead of the *)
(* forward pass), or the data temp itself                                  *)
insteadOf(data) ==
  IF data = NoTmp THEN NoTmp
  ELSE IF tmpInstead[data] >= 0 THEN tmpInstead[data] ELSE data

(* a carrier entry that a Load / Get / GetI copies into its temp *)
readable(av) == av.alloc /\ av.active

(* an untracked write that leaves the entry as it is *)
invalidateNothing(currentVal) == currentVal

(* the entry after a write that carried no shadow value *)
invalidate(currentVal) ==
  IF currentVal.alloc THEN [currentVal EXCEPT !.active = FALSE] ELSE currentVal

(* ---- stages: per stage the iteration count, the relative errors of   ---- *)
(* the addresses stored in the previous and in the current iteration, and   *)
(* the limits; per stage the reports                                        *)
NumStages == 1
Stages == 0 .. (NumStages - 1)
NoStageValue == [val |-> NaN, present |-> FALSE, relError |-> RelZero]
NoVals == [nodes |-> [a \in Addrs |-> NoStageValue], table |-> "null"]
NoLimit == [present |-> FALSE, limit |-> RelZero]
NoStage == [active |-> FALSE, count |-> 0, exists |-> FALSE,
            oldVals |-> NoVals, newVals |-> NoVals,
            limits |-> [a \in Addrs |-> NoLimit]]
NoReport == [origin |-> 0, count |-> 0, present |-> FALSE, iterMin |-> 0, iterMax |-> 0]
NoReports == [nodes |-> [a \in Addrs |-> NoReport], table |-> "null"]

(* |a - b| on relative errors *)
relAbsDiff(a, b) ==
  IF a.k = "nan" \/ b.k = "nan" THEN RelNaN
  ELSE IF a.k = "inf" THEN (IF b.k = "inf" THEN RelNaN ELSE RelInf)
  ELSE IF b.k = "inf" THEN RelInf
  ELSE IF a.d = b.d THEN RelFin(AbsInt(a.n - b.n), a.d)
  ELSE RelFin(AbsInt(a.n * b.d - b.n * a.d), a.d * b.d)

(* updateStages: the relative error of the stored shadow value against *)
(* the guest's value goes to the newVals of every active stage, where  *)
(* the largest one of the iteration stays                              *)
stageValueUpdated(sv, value, stageRelError) ==
  IF sv.present
  THEN (IF relGreater(stageRelError, sv.relError)
        THEN [sv EXCEPT !.val = value, !.relError = stageRelError] ELSE sv)
  ELSE [val |-> value, present |-> TRUE, relError |-> stageRelError]

updateStages(addr, value, stageOrg) ==
  [i \in Stages |->
     IF ~stages[i].exists \/ ~stages[i].active \/ stages[i].newVals.table = "null"
     THEN stages[i]
     ELSE [stages[i] EXCEPT !.newVals.nodes[addr] =
             stageValueUpdated(@, value, meanRelErrorOf(value, stageOrg))]]

(* the entry after a write that carried the shadow value av *)
carry(currentVal, av) ==
  IF currentVal.alloc
  THEN [copyShadowValue(currentVal, av, clo_simulateOriginal) EXCEPT !.active = TRUE]
  ELSE copyShadowValue(initShadowValue, av, clo_simulateOriginal)

writeKind(num) ==
  IF num >= 0 /\ getTemp(num).alloc THEN "tracked" ELSE "untracked"

processLoad(tmp, addr) ==
  /\ ~assertFailed /\ inBlock /\ tmp \notin assigned
  /\ assigned' = assigned \cup {tmp}
  /\ guestTmp' = [guestTmp EXCEPT ![tmp] = guestMem[addr]]
  /\ LET av == globalMemory[addr]
         copied == clo_analyze /\ readable(av)
     IN /\ localTemps' =
             IF copied
             THEN [localTemps EXCEPT ![tmp] =
                     copyShadowValue(setTemp(tmp), av, clo_simulateOriginal)]
             ELSE localTemps
        /\ svWritten' = IF copied THEN svWritten \cup {tmp} ELSE svWritten
        /\ lastOp' = [NoOp EXCEPT !.kind = "Load", !.addr = addr, !.wrTmp = tmp,
                                  !.gotSV = copied]
  /\ drifted' = IF memFresh[addr] THEN drifted \cup {tmp} ELSE drifted
  /\ UNCHANGED <<clo_analyze, optVars, sbExecuted, inBlock, tid, tmpInstead,
                 threadRegisters, globalMemory, guestMem, evalVars, assertFailed,
                 memWrite, memFresh, regWrite, evalCount, observed>>
  /\ countMallocs

(* Store of the data temp (or of the constant c when data = NoTmp) *)
processStore(addr, data, c) ==
  /\ ~assertFailed /\ inBlock
  /\ data # NoTmp => data \in assigned
  /\ LET tmp == insteadOf(data)
         g == IF data = NoTmp THEN c ELSE guestTmp[data]
         isFloat == g.ty = "F32"
         currentVal == globalMemory[addr]
         av == IF tmp >= 0 THEN getTemp(tmp) ELSE NULL
         tracked == clo_analyze /\ tmp >= 0 /\ av.alloc
         res == [carry(currentVal, av) EXCEPT
                   !.orgType = IF isFloat THEN "Ot_FLOAT" ELSE "Ot_DOUBLE",
                   !.Org = g.x]
     IN /\ globalMemory' = [globalMemory EXCEPT ![addr] =
                              IF tracked THEN res ELSE invalidate(currentVal)]
        /\ guestMem' = [guestMem EXCEPT ![addr] = g]
        /\ memWrite' = [memWrite EXCEPT ![addr] = writeKind(tmp)]
        /\ memFresh' = [memFresh EXCEPT ![addr] =
                          /\ readable(currentVal)
                          /\ \/ writeKind(tmp) = "untracked"
                             \/ guestTmp[tmp].x # g.x]
        /\ lastOp' = [NoOp EXCEPT !.kind = "Store", !.addr = addr,
                                  !.args = <<tmp>>, !.gotSV = tracked]
        /\ stages' = IF tracked /\ activeStages > 0
                     THEN updateStages(addr, res.value.x, g.x) ELSE stages
  /\ UNCHANGED <<clo_analyze, optVars, blockVars, localTemps, threadRegisters,
                 guestTmp, argX, meanValues, psoVars, stageReports, activeStages,
                 avFrees, assertFailed, svWritten, regWrite, drifted,
                 evalCount, observed>>
  /\ countMallocs

(* a guest write that no callback sees: the statements that the         *)
(* instrumenter copies as they are (Ist_Dirty, Ist_CAS, Ist_LLSC) leave *)
(* the memory entry untouched                                           *)
uninstrumentedWrite(addr, g) ==
  /\ ~assertFailed /\ inBlock
  /\ guestMem' = [guestMem EXCEPT ![addr] = g]
  /\ memFresh' = [memFresh EXCEPT ![addr] = readable(globalMemory[addr])]
  /\ lastOp' = [NoOp EXCEPT !.kind = "Write", !.addr = addr]
  /\ UNCHANGED <<clo_analyze, optVars, blockVars, storeVars, guestTmp, evalVars,
                 assertFailed, svWritten, memWrite, regWrite, drifted,
                 evalCount, observed>>

(* the register write shared by Put and PutI, at a checked offset *)
putAt(kind, offset, data) ==
  LET tmp == insteadOf(data)
      currentVal == threadRegisters[<<tid, offset>>]
      av == IF tmp >= 0 THEN getTemp(tmp) ELSE NULL
      tracked == clo_analyze /\ tmp >= 0 /\ av.alloc
  IN /\ threadRegisters' = [threadRegisters EXCEPT ![<<tid, offset>>] =
                              IF tracked THEN carry(currentVal, av)
                              ELSE invalidate(currentVal)]
     /\ regWrite' = [regWrite EXCEPT ![<<tid, offset>>] = writeKind(tmp)]
     /\ lastOp' = [NoOp EXCEPT !.kind = kind, !.addr = offset,
                               !.args = <<tmp>>, !.gotSV = tracked]
     /\ UNCHANGED assertFailed

(* a register read that copies whether or not the analysis is on *)
getAtAlways(kind, offset, tmp) ==
  /\ localTemps' =
       IF readable(threadRegisters[<<tid, offset>>])
       THEN [localTemps EXCEPT ![tmp] =
               copyShadowValue(setTemp(tmp), threadRegisters[<<tid, offset>>],
                               clo_simulateOriginal)]
       ELSE localTemps
  /\ svWritten' = IF readable(threadRegisters[<<tid, offset>>])
                  THEN svWritten \cup {tmp} ELSE svWritten
  /\ lastOp' = [NoOp EXCEPT !.kind = kind, !.addr = offset, !.wrTmp = tmp,
                            !.gotSV = readable(threadRegisters[<<tid, offset>>])]
  /\ UNCHANGED assertFailed

(* the register read shared by Get and GetI, at a checked offset *)
getAt(kind, offset, tmp) ==
  LET av == threadRegisters[<<tid, offset>>]
      copied == clo_analyze /\ readable(av)
  IN /\ localTemps' =
          IF copied
          THEN [localTemps EXCEPT ![tmp] =
                  copyShadowValue(setTemp(tmp), av, clo_simulateOriginal)]
          ELSE localTemps
     /\ svWritten' = IF copied THEN svWritten \cup {tmp} ELSE svWritten
     /\ lastOp' = [NoOp EXCEPT !.kind = kind, !.addr = offset, !.wrTmp = tmp,
                               !.gotSV = copied]
     /\ UNCHANGED assertFailed

processPut(offset, data) ==
  /\ ~assertFailed /\ inBlock
  /\ data # NoTmp => data \in assigned
  /\ putAt("Put", offset, data)
  /\ tmpInReg' = [tmpInReg EXCEPT ![offset] = data]
  /\ UNCHANGED <<clo_analyze, cloVars, blockVars, localTemps, globalMemory,
                 guestVars, evalVars, svWritten, memWrite, memFresh, drifted,
                 evalCount, observed>>
  /\ countMallocs

processGet(offset, tmp, g) ==
  /\ ~assertFailed /\ inBlock /\ tmp \notin assigned
  /\ assigned' = assigned \cup {tmp}
  /\ guestTmp' = [guestTmp EXCEPT ![tmp] = g]
  /\ getAt("Get", offset, tmp)
  /\ UNCHANGED <<clo_analyze, optVars, sbExecuted, inBlock, tid, tmpInstead,
                 threadRegisters, globalMemory, guestMem, evalVars,
                 memWrite, memFresh, regWrite, drifted, evalCount, observed>>
  /\ countMallocs

(* C remainder: truncation toward zero; the handlers are applied to a   *)
(* non-negative ix + bias only, where the remainder is the same for a  *)
(* signed and for an unsigned circRegs->ix                             *)
CRem(a, n) == IF a >= 0 THEN a % n ELSE 0 - ((0 - a) % n)

circOffset(base, nElems, ix, bias) == base + CRem(ix + bias, nElems)

processPutI(data, base, nElems, ix, bias) ==
  /\ ~assertFailed /\ inBlock
  /\ data # NoTmp => data \in assigned
  /\ LET offset == circOffset(base, nElems, ix, bias)
     IN IF offset >= 0 /\ offset < MAX_REGISTERS
        THEN offset \in Offsets /\ putAt("PutI", offset, data)
        ELSE /\ assertFailed' = TRUE
             /\ lastOp' = [NoOp EXCEPT !.kind = "PutI", !.addr = offset]
             /\ UNCHANGED <<threadRegisters, regWrite>>
  /\ UNCHANGED <<clo_analyze, optVars, blockVars, localTemps, globalMemory,
                 guestVars, evalVars, svWritten, memWrite, memFresh, drifted,
                 evalCount, observed>>
  /\ countMallocs

processGetI(tmp, base, nElems, ix, bias, g) ==
  /\ ~assertFailed /\ inBlock /\ tmp \notin assigned
  /\ assigned' = assigned \cup {tmp}
  /\ guestTmp' = [guestTmp EXCEPT ![tmp] = g]
  /\ LET offset == circOffset(base, nElems, ix, bias)
     IN IF ~clo_analyze
        THEN /\ lastOp' = [NoOp EXCEPT !.kind = "GetI", !.addr = offset, !.wrTmp = tmp]
             /\ UNCHANGED <<localTemps, svWritten, assertFailed>>
        ELSE IF offset >= 0 /\ offset < MAX_REGISTERS
        THEN offset \in Offsets /\ getAt("GetI", offset, tmp)
        ELSE /\ assertFailed' = TRUE
             /\ lastOp' = [NoOp EXCEPT !.kind = "GetI", !.addr = offset, !.wrTmp = tmp]
             /\ UNCHANGED <<localTemps, svWritten>>
  /\ UNCHANGED <<clo_analyze, optVars, sbExecuted, inBlock, tid, tmpInstead,
                 threadRegisters, globalMemory, guestMem, evalVars,
                 memWrite, memFresh, regWrite, drifted, evalCount, observed>>
  /\ countMallocs

(* a conversion that the instrumenter passes through: its result temp has *)
(* no shadow value of its own and stands for its operand's                *)
convert(op, g) ==
  IF op = "Iop_F64toF32" THEN F32(RoundNum(g.x, FLOAT_PRECISION)) ELSE F64(g.x)

passThrough(op, dst, src) ==
  /\ ~assertFailed /\ inBlock /\ dst \notin assigned /\ src \in assigned
  /\ guestTmp[src].ty = (IF op = "Iop_F64toF32" THEN "F64" ELSE "F32")
  /\ assigned' = assigned \cup {dst}
  /\ tmpInstead' = [tmpInstead EXCEPT ![dst] = insteadOf(src)]
  /\ guestTmp' = [guestTmp EXCEPT ![dst] = convert(op, guestTmp[src])]
  /\ UNCHANGED drifted
  /\ lastOp' = [NoOp EXCEPT !.kind = "PassThrough", !.op = op, !.wrTmp = dst,
                            !.args = <<src>>]
  /\ UNCHANGED <<clo_analyze, optVars, sbExecuted, inBlock, tid, storeVars,
                 guestMem, evalVars, assertFailed, svWritten, memWrite,
                 memFresh, regWrite, evalCount, observed>>

(* ---- client requests: each one ends the running block ---- *)
(* the tables of the detector of precision-specific operations: errorMap *)
(* is a null pointer until the first run constructs it                   *)
NoErrorCount == [errCnt |-> 0, ovCnt |-> 0, totalCnt |-> 0, present |-> FALSE]
NoPSO == [present |-> FALSE, falsePositive |-> FALSE]
NoErrorMap == [nodes |-> [o \in Origins |-> NoErrorCount], table |-> "null"]

baseFrame ==
  /\ ~assertFailed
  /\ inBlock' = FALSE
  /\ UNCHANGED <<optVars, sbExecuted, tid, assigned, tmpInstead, guestTmp,
                 argX, meanValues, avFrees, svWritten, memWrite, memFresh,
                 regWrite, drifted, evalCount, observed>>

requestFrame == baseFrame /\ UNCHANGED stageVars

clientFrame == requestFrame /\ UNCHANGED psoVars

(* the requests that leave the shadow values and the guest alone *)
detectorFrame(kind) ==
  /\ requestFrame
  /\ lastOp' = [NoOp EXCEPT !.kind = kind, !.prev = lastOp.kind]
  /\ UNCHANGED <<clo_analyze, storeVars, guestMem>>

beginOneRun ==
  /\ detectorFrame("PSO_BEGIN_RUN")
  /\ errorMap' = IF clo_detect_pso THEN [NoErrorMap EXCEPT !.table = "live"]
                 ELSE errorMap
  /\ finishPSO' = IF clo_detect_pso THEN FALSE ELSE finishPSO
  /\ UNCHANGED <<detectedPSO, findFirstPSO, assertFailed>>

(* collectPSO: the origins of errorMap whose error share is above *)
(* PSO_PERCENTIGE_THRESHOLD (0.7) become candidates, marked false *)
(* positive where the near-zero share is above 0.1                *)
(* (the double product totalCnt * 0.7 compares as the exact one for *)
(* every totalCnt below 90)                                         *)
(* a criterion with the threshold at one half *)
isCandidateHalf(cnt) == cnt.present /\ cnt.errCnt * 10 > cnt.totalCnt * 5

isCandidate(cnt) == cnt.present /\ cnt.errCnt * 10 > cnt.totalCnt * 7
collectPSO ==
  [o \in Origins |->
     IF isCandidate(errorMap.nodes[o])
     THEN [present |-> TRUE,
           falsePositive |-> errorMap.nodes[o].ovCnt * 10 > errorMap.nodes[o].totalCnt]
     ELSE detectedPSO[o]]

(* the purge of endOneRun, taken when finishPSO is still set *)
purged(collected) ==
  [o \in Origins |-> IF collected[o].falsePositive THEN NoPSO ELSE collected[o]]

(* endOneRun; iterating a null table crashes, iterating a destructed *)
(* one may crash or still walk the freed nodes                       *)
endOneRun(freedCrash) ==
  /\ detectorFrame("PSO_END_RUN")
  /\ IF ~clo_detect_pso
     THEN UNCHANGED <<psoVars, assertFailed>>
     ELSE IF errorMap.table = "null" \/ (errorMap.table = "freed" /\ freedCrash)
     THEN assertFailed' = TRUE /\ UNCHANGED psoVars
     ELSE /\ finishPSO' = (\A o \in Origins : ~isCandidate(errorMap.nodes[o]))
          /\ detectedPSO' = IF \A o \in Origins : ~isCandidate(errorMap.nodes[o])
                            THEN purged(collectPSO) ELSE collectPSO
          /\ errorMap' = [errorMap EXCEPT !.table = "freed"]
          /\ UNCHANGED <<findFirstPSO, assertFailed>>

beginOneInstance ==
  /\ detectorFrame("PSO_BEGIN_INSTANCE")
  /\ findFirstPSO' = IF clo_detect_pso THEN FALSE ELSE findFirstPSO
  /\ UNCHANGED <<detectedPSO, errorMap, finishPSO, assertFailed>>

(* a reset that leaves the version stamps of the temps alone *)
resetKeepingVersions ==
  /\ clientFrame
  /\ threadRegisters' = [r \in Threads \X Offsets |-> invalidate(threadRegisters[r])]
  /\ globalMemory' = [a \in Addrs |-> invalidate(globalMemory[a])]
  /\ lastOp' = [NoOp EXCEPT !.kind = "RESET", !.prev = lastOp.kind]
  /\ UNCHANGED <<clo_analyze, localTemps, guestMem, assertFailed>>
  /\ countMallocs

(* a reset that flips the active flag of the memory entries *)
resetFlippingActive ==
  /\ clientFrame
  /\ threadRegisters' = [r \in Threads \X Offsets |-> invalidate(threadRegisters[r])]
  /\ localTemps' = [t \in Temps |->
                      IF localTemps[t].alloc
                      THEN [localTemps[t] EXCEPT !.version = 0] ELSE localTemps[t]]
  /\ globalMemory' = [a \in Addrs |->
                        IF globalMemory[a].alloc
                        THEN [globalMemory[a] EXCEPT !.active = ~@]
                        ELSE globalMemory[a]]
  /\ lastOp' = [NoOp EXCEPT !.kind = "RESET", !.prev = lastOp.kind]
  /\ UNCHANGED <<clo_analyze, guestMem, assertFailed>>
  /\ countMallocs

resetShadowValues ==
  /\ clientFrame
  /\ threadRegisters' = [r \in Threads \X Offsets |-> invalidate(threadRegisters[r])]
  /\ localTemps' = [t \in Temps |->
                      IF localTemps[t].alloc
                      THEN [localTemps[t] EXCEPT !.version = 0] ELSE localTemps[t]]
  /\ globalMemory' = [a \in Addrs |-> invalidate(globalMemory[a])]
  /\ lastOp' = [NoOp EXCEPT !.kind = "RESET", !.prev = lastOp.kind]
  /\ UNCHANGED <<clo_analyze, guestMem, assertFailed>>
  /\ countMallocs

beginAnalyzing ==
  /\ clientFrame
  /\ clo_analyze' = TRUE
  /\ lastOp' = [NoOp EXCEPT !.kind = "BEGIN"]
  /\ UNCHANGED <<storeVars, guestMem, assertFailed>>

endAnalyzing ==
  /\ clientFrame
  /\ clo_analyze' = (IF ~clo_ignore_end THEN FALSE ELSE clo_analyze)
  /\ lastOp' = [NoOp EXCEPT !.kind = "END"]
  /\ UNCHANGED <<storeVars, guestMem, assertFailed>>

(* ---- BEGIN_STAGE, END_STAGE, CLEAR_STAGE ---- *)
stageFrame(kind, num) ==
  /\ baseFrame
  /\ lastOp' = [NoOp EXCEPT !.kind = kind, !.addr = num]
  /\ UNCHANGED <<clo_analyze, storeVars, guestMem, psoVars>>

liveVals == [NoVals EXCEPT !.table = "live"]

stageStart(num) ==
  /\ stageFrame("BEGIN_STAGE", num)
  /\ IF num >= MAX_STAGES \/ (stages[num].exists /\ stages[num].active)
     THEN assertFailed' = TRUE /\ UNCHANGED stageVars
     ELSE /\ stages' = [stages EXCEPT ![num] =
                          IF @.exists
                          THEN [@ EXCEPT !.active = TRUE, !.count = @ + 1,
                                         !.newVals = liveVals]
                          ELSE [NoStage EXCEPT !.active = TRUE, !.count = 1,
                                               !.exists = TRUE,
                                               !.newVals = liveVals]]
          /\ activeStages' = activeStages + 1
          /\ UNCHANGED <<stageReports, assertFailed>>

(* the addresses of newVals that have a mate in oldVals, and the *)
(* difference of the two relative errors                         *)
hasMate(st, a) ==
  /\ st.newVals.table # "null" /\ st.oldVals.table # "null"
  /\ st.newVals.nodes[a].present /\ st.oldVals.nodes[a].present

stageDiff(st, a) ==
  relAbsDiff(st.oldVals.nodes[a].relError, st.newVals.nodes[a].relError)

exceeds(st, a) ==
  hasMate(st, a) /\ st.limits[a].present /\ relGreater(stageDiff(st, a), st.limits[a].limit)

(* limits that follow the latest difference *)
limitsLatest(st) ==
  [a \in Addrs |->
     IF hasMate(st, a)
     THEN [present |-> TRUE, limit |-> stageDiff(st, a)]
     ELSE st.limits[a]]

limitsAfter(st) ==
  [a \in Addrs |->
     IF hasMate(st, a) /\ (~st.limits[a].present \/ exceeds(st, a))
     THEN [present |-> TRUE, limit |-> stageDiff(st, a)]
     ELSE st.limits[a]]

reportsAfter(st, reports) ==
  [nodes |->
     [a \in Addrs |->
        IF ~exceeds(st, a) THEN reports.nodes[a]
        ELSE IF reports.nodes[a].present
        THEN [reports.nodes[a] EXCEPT !.count = @ + 1, !.iterMax = st.count]
        ELSE [origin |-> IF globalMemory[a].alloc THEN globalMemory[a].origin ELSE 0,
              count |-> 1, present |-> TRUE,
              iterMin |-> st.count, iterMax |-> st.count]],
   table |-> IF \E a \in Addrs : exceeds(st, a) THEN "live" ELSE reports.table]

stageEnd(num) ==
  /\ baseFrame
  /\ lastOp' = [NoOp EXCEPT !.kind = "END_STAGE", !.addr = num,
                            !.mates = IF stages[num].exists
                                      THEN {<<a, stages[num].oldVals.nodes[a].relError,
                                              stages[num].newVals.nodes[a].relError>> :
                                              a \in {b \in Addrs : hasMate(stages[num], b)}}
                                      ELSE {}]
  /\ UNCHANGED <<clo_analyze, storeVars, guestMem, psoVars>>
  /\ IF ~stages[num].exists \/ ~stages[num].active
     THEN assertFailed' = TRUE /\ UNCHANGED stageVars
     ELSE /\ stages' = [stages EXCEPT ![num] =
                          [@ EXCEPT !.active = FALSE,
                                    !.oldVals = stages[num].newVals,
                                    !.newVals = NoVals,
                                    !.limits = limitsAfter(stages[num])]]
          /\ stageReports' = [stageReports EXCEPT ![num] =
                                reportsAfter(stages[num], @)]
          /\ activeStages' = activeStages - 1
          /\ UNCHANGED assertFailed

stageClear(num) ==
  /\ stageFrame("CLEAR_STAGE", num)
  /\ stages' = [stages EXCEPT ![num] = NoStage]
  /\ UNCHANGED <<stageReports, activeStages, assertFailed>>

(* ORIGINAL_TO_SHADOW and SHADOW_TO_ORIGINAL read and write the guest   *)
(* memory at the width of the entry's orgType; they are applied where   *)
(* the memory holds a value of that width                               *)
widthOk(svalue, g) ==
  svalue.alloc => (g.ty = IF svalue.orgType = "Ot_FLOAT" THEN "F32" ELSE "F64")

widthPrec(svalue) ==
  IF svalue.orgType = "Ot_FLOAT" THEN FLOAT_PRECISION ELSE DOUBLE_PRECISION

requestOp(kind, addr) ==
  [NoOp EXCEPT !.kind = kind, !.addr = addr, !.guest = guestMem[addr],
               !.prev = IF lastOp.addr = addr THEN lastOp.kind ELSE "none"]

originalToShadow(addrFp) ==
  /\ clientFrame
  /\ widthOk(globalMemory[addrFp], guestMem[addrFp])
  /\ lastOp' = requestOp("ORIGINAL_TO_SHADOW", addrFp)
  /\ IF globalMemory[addrFp].alloc /\ globalMemory[addrFp].orgType = "Ot_INVALID"
     THEN assertFailed' = TRUE /\ UNCHANGED globalMemory
     ELSE /\ globalMemory' =
               IF globalMemory[addrFp].alloc
               THEN [globalMemory EXCEPT ![addrFp] =
                       [@ EXCEPT
                          !.value = mpfr_set_ieee(@, guestMem[addrFp]),
                          !.midValue =
                            mpfr_set_ieee(mpfr_set_prec(@, widthPrec(globalMemory[addrFp])),
                                          guestMem[addrFp])]]
               ELSE globalMemory
          /\ UNCHANGED assertFailed
  /\ UNCHANGED <<clo_analyze, localTemps, threadRegisters, guestMem>>
  /\ countMallocs

shadowToOriginal(addrFp) ==
  /\ clientFrame
  /\ widthOk(globalMemory[addrFp], guestMem[addrFp])
  /\ lastOp' = requestOp("SHADOW_TO_ORIGINAL", addrFp)
  /\ IF globalMemory[addrFp].alloc /\ globalMemory[addrFp].orgType = "Ot_INVALID"
     THEN assertFailed' = TRUE /\ UNCHANGED guestMem
     ELSE /\ guestMem' =
               IF globalMemory[addrFp].alloc
               THEN [guestMem EXCEPT ![addrFp] =
                       IF globalMemory[addrFp].orgType = "Ot_FLOAT"
                       THEN mpfr_get_flt(globalMemory[addrFp].value)
                       ELSE mpfr_get_d(globalMemory[addrFp].value)]
               ELSE guestMem
          /\ UNCHANGED assertFailed
  /\ UNCHANGED <<clo_analyze, storeVars>>

(* unitExp: the guest's numbers are whole multiples of 2^-unitExp *)
InitButTables(sims, means, ignoreEnds, psos, units, branches) ==
  /\ clo_analyze = TRUE
  /\ clo_goto_shadow_branch \in branches
  /\ clo_detect_pso \in psos
  /\ unitExp \in units
  /\ detectedPSO = [o \in Origins |-> NoPSO]
  /\ stages = [i \in Stages |-> NoStage]
  /\ stageReports = [i \in Stages |-> NoReports]
  /\ activeStages = 0
  /\ avMallocs = 0
  /\ avFrees = 0
  /\ findFirstPSO = FALSE
  /\ finishPSO = FALSE
  /\ clo_simulateOriginal \in sims
  /\ clo_computeMeanValue \in means
  /\ clo_ignore_end \in ignoreEnds
  /\ sbExecuted = 0
  /\ inBlock = FALSE
  /\ tid = 1
  /\ assigned = {}
  /\ tmpInstead = [t \in Temps |-> NoTmp]
  /\ tmpInReg = [o \in Offsets |-> NoTmp]
  /\ localTemps = [t \in Temps |-> NULL]
  /\ threadRegisters = [r \in Threads \X Offsets |-> NULL]
  /\ globalMemory = [a \in Addrs |-> NULL]
  /\ guestTmp = [t \in Temps |-> GuestZero]
  /\ guestMem = [a \in Addrs |-> GuestZero]
  /\ argX = [n \in ScratchNames |-> mpfr_init(DEFAULT_PRECISION)]
  /\ assertFailed = FALSE
  /\ lastOp = NoOp
  /\ svWritten = {}
  /\ memWrite = [a \in Addrs |-> "none"]
  /\ memFresh = [a \in Addrs |-> FALSE]
  /\ regWrite = [r \in Threads \X Offsets |-> "none"]
  /\ drifted = {}
  /\ evalCount = [o \in Origins |-> 0]
  /\ observed = [o \in Origins |-> {}]

InitButMeans(sims, means, ignoreEnds, psos, units, branches) ==
  /\ InitButTables(sims, means, ignoreEnds, psos, units, branches)
  /\ errorMap = NoErrorMap

(* the states in which no block is being translated *)
InitRun(sims, means, ignoreEnds, psos, units, branches) ==
  /\ InitButMeans(sims, means, ignoreEnds, psos, units, branches)
  /\ meanValues = [o \in Origins |-> NoMean]

InitAll(sims, means, ignoreEnds, psos, units, branches) ==
  /\ InitRun(sims, means, ignoreEnds, psos, units, branches)
  /\ clo_track_int = FALSE
  /\ clo_ignoreLibraries = FALSE
  /\ sbIn = <<>>
  /\ sbOut = <<>>
  /\ introducedError = RelNaN

InitFlags(sims, means, ignoreEnds, psos, units) ==
  InitAll(sims, means, ignoreEnds, psos, units, {FALSE})

InitOpts(sims, means, ignoreEnds) == InitFlags(sims, means, ignoreEnds, {FALSE}, {0})

(* every translated block starts by incrementing the block counter; the *)
(* scheduler picks the running thread between blocks                    *)
enterSB(newTid, limit) ==
  /\ ~assertFailed
  /\ sbExecuted < limit
  /\ sbExecuted' = sbExecuted + 1
  /\ inBlock' = TRUE
  /\ tid' = newTid
  /\ assigned' = {}
  /\ tmpInstead' = [t \in Temps |-> NoTmp]
  /\ guestTmp' = [t \in Temps |-> GuestZero]
  /\ svWritten' = {}
  /\ drifted' = {}
  /\ tmpInReg' = [o \in Offsets |-> NoTmp]
  /\ lastOp' = [NoOp EXCEPT !.kind = "EnterSB"]
  /\ UNCHANGED <<clo_analyze, cloVars, storeVars, guestMem, evalVars,
                 assertFailed, memWrite, memFresh, regWrite, evalCount, observed>>

instrumentEnterSB(newTid) == enterSB(newTid, MaxBlocks)

(* ---- the operation evaluators ---- *)
FloatOps == {"Iop_NegF32", "Iop_AbsF32", "Iop_Add32F0x4", "Iop_Sub32F0x4",
             "Iop_Mul32F0x4", "Iop_Min32F0x4", "Iop_Max32F0x4"}
isOpFloat(op) == op \in FloatOps
opPrec(op) == IF isOpFloat(op) THEN FLOAT_PRECISION ELSE DOUBLE_PRECISION

maxExp(x, y) == IF x > y THEN x ELSE y

(* the exponent difference without the clamp at zero *)
getCanceledBitsSigned(res, arg1, arg2) ==
  IF ~mpfr_regular_p(arg1) \/ ~mpfr_regular_p(arg2) \/ ~mpfr_regular_p(res)
  THEN 0
  ELSE maxExp(mpfr_get_exp(arg1), mpfr_get_exp(arg2)) - mpfr_get_exp(res)

getCanceledBits(res, arg1, arg2) ==
  IF ~mpfr_regular_p(arg1) \/ ~mpfr_regular_p(arg2) \/ ~mpfr_regular_p(res)
  THEN 0
  ELSE IF mpfr_get_exp(res) < maxExp(mpfr_get_exp(arg1), mpfr_get_exp(arg2))
       THEN AbsInt(maxExp(mpfr_get_exp(arg1), mpfr_get_exp(arg2)) - mpfr_get_exp(res))
       ELSE 0

(* the double exponent range imposed on the simulated-original channel: *)
(* a regular result above the range overflows; the integers of the      *)
(* model lie above the subnormal threshold                              *)
EMAX == 1024
subnormalize(m) ==
  IF mpfr_regular_p(m.x) /\ mpfr_get_exp(m.x) > EMAX
  THEN [m EXCEPT !.x = [k |-> "inf", v |-> mpfr_sgn(m.x)]] ELSE m

readSTemp(fp, g) ==
  mpfr_set_ieee(IF clo_simulateOriginal
                THEN mpfr_set_prec(fp, IF g.ty = "F32" THEN FLOAT_PRECISION
                                                     ELSE DOUBLE_PRECISION)
                ELSE fp, g)

orgPrec(sv) == IF sv.orgType = "Ot_FLOAT" THEN FLOAT_PRECISION ELSE DOUBLE_PRECISION

(* org is the stored guest value at the precision of its type *)
recoverFrom(svalue, org) ==
  IF mpfr_cmp(org.x, svalue.oriValue.x) # 0
  THEN [svalue EXCEPT !.value = mpfr_set(svalue.value, org.x),
                      !.midValue = mpfr_set(svalue.midValue, org.x),
                      !.oriValue = mpfr_set(svalue.oriValue, org.x)]
  ELSE svalue

checkAndRecover(svalue) ==
  recoverFrom(svalue, mpfr_set(mpfr_init(orgPrec(svalue)), svalue.Org))

(* a scratch variable, its precision reset where the handler resets it *)
scratch(name, prec, reset) ==
  IF reset THEN mpfr_set_prec(argX[name], prec) ELSE argX[name]

(* one operand read: the three scratch slots filled from the operand's *)
(* shadow value sv (after the drift check) or from the guest value g,  *)
(* and the operand's metadata                                          *)
operandChannels(slot, prec, sv, asserts, tmpX, isConst) ==
  [opCount |-> IF sv.alloc THEN sv.opCount ELSE 0,
   origin |-> IF sv.alloc THEN sv.origin ELSE 0,
   canceled |-> IF sv.alloc THEN sv.canceled ELSE 0,
   cancelOrigin |-> IF sv.alloc THEN sv.cancelOrigin ELSE 0,
   sv |-> sv,
   irel |-> IF isConst THEN RelNaN ELSE computeRelativeError(sv),
   asserts |-> asserts,
   tmpX |-> tmpX,
   midX |-> mpfr_set(scratch(slot[2], prec, TRUE),
                     IF sv.alloc THEN sv.midValue.x ELSE tmpX.x),
   oriX |-> subnormalize(mpfr_set(scratch(slot[3], prec, TRUE),
                                  IF sv.alloc THEN sv.oriValue.x ELSE tmpX.x))]

operandRead(slot, prec, isConst, g, sv, asserts) ==
  operandChannels(slot, prec, sv, asserts,
    IF isConst THEN mpfr_set_ieee(scratch(slot[1], prec, clo_simulateOriginal), g)
    ELSE IF sv.alloc THEN mpfr_set(scratch(slot[1], prec, clo_simulateOriginal),
                                   sv.value.x)
    ELSE readSTemp(scratch(slot[1], prec, FALSE), g),
    isConst)

operandChecked(slot, prec, isConst, g, recover, sv0) ==
  operandRead(slot, prec, isConst, g,
              IF recover /\ sv0.alloc /\ sv0.orgType # "Ot_INVALID"
              THEN checkAndRecover(sv0) ELSE sv0,
              recover /\ sv0.alloc /\ sv0.orgType = "Ot_INVALID")

readOperand(slot, prec, isConst, num, g, recover) ==
  operandChecked(slot, prec, isConst, g, recover,
                 IF isConst THEN NULL ELSE getTemp(num))

unaryResult(op, a) ==
  IF op \in {"Iop_NegF32", "Iop_NegF64"} THEN NumNeg(a) ELSE NumAbs(a)

arithResult(op, a, b) ==
  IF op \in {"Iop_Add32F0x4", "Iop_Add64F0x2", "Iop_AddF64"} THEN NumAdd(a, b)
  ELSE IF op \in {"Iop_Sub32F0x4", "Iop_Sub64F0x2", "Iop_SubF64"} THEN NumSub(a, b)
  ELSE IF op \in {"Iop_Mul32F0x4", "Iop_Mul64F0x2", "Iop_MulF64"} THEN NumMul(a, b)
  ELSE IF op \in {"Iop_Min32F0x4", "Iop_Min64F0x2"} THEN NumMin(a, b)
  ELSE NumMax(a, b)

isAddSub(op) ==
  op \in {"Iop_Add32F0x4", "Iop_Add64F0x2", "Iop_AddF64",
          "Iop_Sub32F0x4", "Iop_Sub64F0x2", "Iop_SubF64"}

(* the result entry with its precisions set for the operation *)
withPrecisions(res, prec) ==
  [res EXCEPT
     !.value = IF clo_simulateOriginal THEN mpfr_set_prec(res.value, prec)
                                       ELSE res.value,
     !.midValue = mpfr_set_prec(res.midValue, prec),
     !.oriValue = mpfr_set_prec(res.oriValue, prec)]

(* a result entry whose precisions are left as they were *)
resultSlotAsIs(wrTmp, op) == setTemp(wrTmp)

resultSlot(wrTmp, op) == withPrecisions(setTemp(wrTmp), opPrec(op))

(* a count that follows the shorter operand chain *)
resultOpCountMin(c1, c2) == 1 + (IF c1 < c2 THEN c1 ELSE c2)

resultOpCount(c1, c2) == 1 + (IF c1 > c2 THEN c1 ELSE c2)

(* max-propagation of the cancellation: <<canceled, cancelOrigin>> *)
(* a cancellation that forgets the operands' *)
maxCanceledOwn(canceled, addr, a, b) == <<canceled, addr>>

maxCanceled(canceled, addr, a, b) ==
  IF b.canceled > MaxInt(canceled, a.canceled)
  THEN <<b.canceled, b.cancelOrigin>>
  ELSE IF a.canceled > canceled THEN <<a.canceled, a.cancelOrigin>>
  ELSE <<canceled, addr>>

Slot1 == <<"arg1tmpX", "arg1midX", "arg1oriX">>
Slot2 == <<"arg2tmpX", "arg2midX", "arg2oriX">>
Slot3 == <<"arg3tmpX", "arg3midX", "arg3oriX">>

withSlot(f, slot, r) ==
  [f EXCEPT ![slot[1]] = r.tmpX, ![slot[2]] = r.midX, ![slot[3]] = r.oriX]

opTy(op) == IF isOpFloat(op) THEN "F32" ELSE "F64"
orgTypeOf(op) == IF isOpFloat(op) THEN "Ot_FLOAT" ELSE "Ot_DOUBLE"

(* what every intercepted operation does to the guest: the result temp *)
(* receives the guest's own IEEE result                                *)
guestResult(op, wrTmp, org) ==
  /\ assigned' = assigned \cup {wrTmp}
  /\ guestTmp' = [guestTmp EXCEPT ![wrTmp] = [x |-> org, ty |-> opTy(op)]]

(* the guest's own result, which the instrumented code hands to the     *)
(* evaluator: the IEEE result at the operation's width; the SSE minimum *)
(* and maximum return their second operand when either one is a NaN     *)
orgUnary(op, g) == RoundNum(unaryResult(op, g.x), opPrec(op))
orgArith(op, g1, g2) ==
  IF op \in {"Iop_Min32F0x4", "Iop_Min64F0x2", "Iop_Max32F0x4", "Iop_Max64F0x2"}
     /\ (mpfr_nan_p(g1.x) \/ mpfr_nan_p(g2.x))
  THEN g2.x
  ELSE RoundNum(arithResult(op, g1.x, g2.x), opPrec(op))

operandOk(op, src) == src # NoTmp => (src \in assigned /\ guestTmp[src].ty = opTy(op))
operandValue(src, c) == IF src = NoTmp THEN c ELSE guestTmp[src]

skipped(kind, addr, op, wrTmp) ==
  /\ lastOp' = [NoOp EXCEPT !.kind = kind, !.addr = addr, !.op = op, !.wrTmp = wrTmp]
  /\ UNCHANGED <<localTemps, evalVars, assertFailed, svWritten, evalCount, observed>>

(* the handler's inputs, as one record *)
opIn(kind, addr, op, wrTmp, srcs, org) ==
  [kind |-> kind, addr |-> addr, op |-> op, wrTmp |-> wrTmp, srcs |-> srcs,
   org |-> org]

(* the end of an evaluation: the result enters the temp table, the    *)
(* statistics are updated and the handler's locals are recorded       *)
evalCommit(in, temps, scratchX, res, canceled, args, origins, meanShadow, pso) ==
  /\ res.opCount <= MaxOpCount
  /\ localTemps' = [temps EXCEPT ![in.wrTmp] = res]
  /\ argX' = scratchX
  /\ meanValues' = IF clo_computeMeanValue
                   THEN updateMeanValue(in.addr, meanShadow, in.org, canceled,
                                        origins[1], origins[2])
                   ELSE meanValues
  /\ svWritten' = svWritten \cup {in.wrTmp}
  /\ evalCount' = IF clo_computeMeanValue
                  THEN [evalCount EXCEPT ![in.addr] = @ + 1]
                  ELSE evalCount
  /\ observed' = IF clo_computeMeanValue
                 THEN [observed EXCEPT ![in.addr] =
                         @ \cup {meanRelErrorOf(meanShadow, in.org)}]
                 ELSE observed
  /\ lastOp' = [NoOp EXCEPT !.kind = in.kind, !.addr = in.addr, !.op = in.op,
                            !.wrTmp = in.wrTmp, !.args = args, !.srcs = in.srcs,
                            !.fresh = {in.srcs[i] : i \in DOMAIN in.srcs} \cap drifted,
                            !.canceled = canceled, !.gotSV = TRUE]
  /\ errorMap' = pso.errorMap
  /\ findFirstPSO' = pso.findFirstPSO
  /\ assertFailed' = pso.crash
  /\ UNCHANGED <<detectedPSO, finishPSO, stageVars, avFrees>>

unOpEvaluate(in, a, res0) ==
  evalCommit(in, localTemps, withSlot(argX, Slot1, a),
             [res0 EXCEPT
                !.opCount = a.opCount + 1,
                !.origin = in.addr,
                !.value = mpfr_set(res0.value, unaryResult(in.op, a.tmpX.x)),
                !.midValue = mpfr_set(res0.midValue, unaryResult(in.op, a.midX.x)),
                !.oriValue = subnormalize(
                               mpfr_set(res0.oriValue, unaryResult(in.op, a.oriX.x))),
                !.canceled = a.canceled,
                !.cancelOrigin = a.cancelOrigin,
                !.Org = in.org,
                !.orgType = orgTypeOf(in.op)],
             0, <<insteadOf(in.srcs[1])>>, <<a.origin, 0>>,
             mpfr_set(res0.value, unaryResult(in.op, a.tmpX.x)).x, psoState(FALSE))

processUnOp(addr, op, wrTmp, src, c, org) ==
  /\ ~assertFailed /\ inBlock /\ wrTmp \notin assigned /\ operandOk(op, src)
  /\ meanValues[addr].count < MaxMeanCount
  /\ guestResult(op, wrTmp, org)
  /\ IF ~clo_analyze THEN skipped("UnOp", addr, op, wrTmp)
     ELSE unOpEvaluate(opIn("UnOp", addr, op, wrTmp, <<src>>, org),
                       readOperand(Slot1, opPrec(op), src = NoTmp, insteadOf(src),
                                   operandValue(src, c), FALSE),
                       resultSlot(wrTmp, op))
  /\ drifted' = drifted \ {src}
  /\ UNCHANGED <<clo_analyze, optVars, sbExecuted, inBlock, tid, tmpInstead,
                 threadRegisters, globalMemory, guestMem, memWrite, memFresh,
                 regWrite>>
  /\ countMallocs

(* the operand entries after the drift check *)
recoveredTemps(args, a, b) ==
  [t \in Temps |->
     IF b.sv.alloc /\ t = args[2] THEN b.sv
     ELSE IF a.sv.alloc /\ t = args[1] THEN a.sv
     ELSE localTemps[t]]

(* the end of a binary or ternary evaluation: the binary handler feeds *)
(* the statistics before the fix overwrites value, the ternary one     *)
(* after it; both hand the result to the detector last                 *)
arithDone(in, temps, scratchX, res, value, canceled, args, a, b) ==
  \E freedCrash \in IF clo_detect_pso /\ errorMap.table = "freed"
                     THEN BOOLEAN ELSE {FALSE} :
    evalCommit(in, temps, scratchX, res, canceled, args, <<a.origin, b.origin>>,
               IF in.kind = "BinOp" THEN value.x ELSE res.value.x,
               analyzePSO(relMax(a.irel, b.irel), res, freedCrash))

(* the fix of a detected precision-specific operation: on exit the value *)
(* is the middle value                                                   *)
fixNothing(addr, value, midValue) == value

fixValue(addr, value, midValue) ==
  IF needFix(addr) THEN mpfr_set(value, midValue.x) ELSE value

arithStore(in, slotA, slotB, a, b, res0, value, canceled) ==
  arithDone(in, recoveredTemps(<<insteadOf(in.srcs[1]), insteadOf(in.srcs[2])>>, a, b),
             withSlot(withSlot(argX, slotA, a), slotB, b),
             [res0 EXCEPT
                !.opCount = resultOpCount(a.opCount, b.opCount),
                !.origin = in.addr,
                !.value = fixValue(in.addr, value,
                                   mpfr_set(res0.midValue,
                                            arithResult(in.op, a.midX.x, b.midX.x))),
                !.midValue = mpfr_set(res0.midValue,
                                      arithResult(in.op, a.midX.x, b.midX.x)),
                !.oriValue = subnormalize(
                               mpfr_set(res0.oriValue,
                                        arithResult(in.op, a.oriX.x, b.oriX.x))),
                !.canceled = maxCanceled(canceled, in.addr, a, b)[1],
                !.cancelOrigin = maxCanceled(canceled, in.addr, a, b)[2],
                !.Org = in.org,
                !.orgType = orgTypeOf(in.op)],
             value, canceled, <<insteadOf(in.srcs[1]), insteadOf(in.srcs[2])>>,
             a, b)

arithCancel(in, slotA, slotB, a, b, res0, value) ==
  arithStore(in, slotA, slotB, a, b, res0, value,
             IF isAddSub(in.op) THEN getCanceledBits(value.x, a.tmpX.x, b.tmpX.x)
             ELSE 0)

arithEvaluate(in, slotA, slotB, a, b, res0) ==
  IF a.asserts \/ b.asserts
  THEN /\ assertFailed' = TRUE
       /\ lastOp' = [NoOp EXCEPT !.kind = in.kind, !.addr = in.addr, !.op = in.op,
                                 !.fresh = {in.srcs[1], in.srcs[2]} \cap drifted]
       /\ UNCHANGED <<localTemps, evalVars, svWritten, evalCount, observed>>
  ELSE arithCancel(in, slotA, slotB, a, b, res0,
                   mpfr_set(res0.value, arithResult(in.op, a.tmpX.x, b.tmpX.x)))

(* the fix of a precision-specific operation: the middle operand is *)
(* seeded from the high-precision one                               *)
seedMid(addr, r) ==
  IF needFix(addr) THEN [r EXCEPT !.midX = mpfr_set(r.midX, r.tmpX.x)] ELSE r

(* products are exact in the model where the unit is 1 *)
unitOk(op) ==
  op \in {"Iop_Mul32F0x4", "Iop_Mul64F0x2", "Iop_MulF64"} => unitExp = 0

(* the two-operand evaluation shared by the binary and the ternary handler *)
evaluate2(kind, slotA, slotB, addr, op, wrTmp, src1, c1, src2, c2, org) ==
  /\ ~assertFailed /\ inBlock /\ wrTmp \notin assigned
  /\ operandOk(op, src1) /\ operandOk(op, src2) /\ unitOk(op)
  /\ meanValues[addr].count < MaxMeanCount
  /\ guestResult(op, wrTmp, org)
  /\ IF ~clo_analyze THEN skipped(kind, addr, op, wrTmp)
     ELSE arithEvaluate(opIn(kind, addr, op, wrTmp, <<src1, src2>>, org),
                        slotA, slotB,
                        seedMid(addr,
                          readOperand(slotA, opPrec(op), src1 = NoTmp, insteadOf(src1),
                                      operandValue(src1, c1), TRUE)),
                        seedMid(addr,
                          readOperand(slotB, opPrec(op), src2 = NoTmp, insteadOf(src2),
                                      operandValue(src2, c2), TRUE)),
                        resultSlot(wrTmp, op))
  /\ drifted' = drifted \ {src1, src2}
  /\ UNCHANGED <<clo_analyze, optVars, sbExecuted, inBlock, tid, tmpInstead,
                 threadRegisters, globalMemory, guestMem, memWrite, memFresh,
                 regWrite>>
  /\ countMallocs

processBinOp(addr, op, wrTmp, src1, c1, src2, c2, org) ==
  evaluate2("BinOp", Slot1, Slot2, addr, op, wrTmp, src1, c1, src2, c2, org)

processTriOp(addr, op, wrTmp, src2, c2, src3, c3, org) ==
  evaluate2("TriOp", Slot2, Slot3, addr, op, wrTmp, src2, c2, src3, c3, org)

(* ---- Mux0X: t = cond ? exprX : expr0 ---- *)
(* the side the callback copies from: NULL where it returns early *)
muxUnselected(condVal, aexpr0, aexprX) == IF condVal # 0 THEN aexpr0 ELSE aexprX
muxSelected(condVal, aexpr0, aexprX) == IF condVal # 0 THEN aexprX ELSE aexpr0

muxReturns(condVal, const0, constX, aexpr0, aexprX) ==
  \/ IF const0 THEN condVal = 0 ELSE (~aexpr0.alloc /\ condVal = 0)
  \/ IF constX THEN condVal # 0 ELSE (~aexprX.alloc /\ condVal # 0)

muxCopy(wrTmp, condVal, const0, constX, aexpr0, aexprX) ==
  IF ~clo_analyze \/ muxReturns(condVal, const0, constX, aexpr0, aexprX)
  THEN UNCHANGED <<localTemps, svWritten>>
  ELSE /\ localTemps' = [localTemps EXCEPT ![wrTmp] =
                           copyShadowValue(setTemp(wrTmp),
                                           muxSelected(condVal, aexpr0, aexprX),
                                           clo_simulateOriginal)]
       /\ svWritten' = svWritten \cup {wrTmp}

processMux0X(wrTmp, condVal, expr0, c0, exprX, cX) ==
  /\ ~assertFailed /\ inBlock /\ wrTmp \notin assigned
  /\ expr0 # NoTmp => expr0 \in assigned
  /\ exprX # NoTmp => exprX \in assigned
  /\ operandValue(expr0, c0).ty = operandValue(exprX, cX).ty
  /\ assigned' = assigned \cup {wrTmp}
  /\ guestTmp' = [guestTmp EXCEPT ![wrTmp] =
                    IF condVal # 0 THEN operandValue(exprX, cX)
                    ELSE operandValue(expr0, c0)]
  /\ muxCopy(wrTmp, condVal, expr0 = NoTmp, exprX = NoTmp,
             IF expr0 = NoTmp THEN NULL ELSE getTemp(insteadOf(expr0)),
             IF exprX = NoTmp THEN NULL ELSE getTemp(insteadOf(exprX)))
  /\ lastOp' = [NoOp EXCEPT !.kind = "Mux", !.wrTmp = wrTmp,
                            !.args = <<insteadOf(expr0), insteadOf(exprX)>>,
                            !.srcs = <<expr0, exprX>>, !.condVal = condVal]
  /\ UNCHANGED <<clo_analyze, optVars, sbExecuted, inBlock, tid, tmpInstead,
                 threadRegisters, globalMemory, guestMem, evalVars, assertFailed,
                 memWrite, memFresh, regWrite, drifted, evalCount, observed>>
  /\ countMallocs

(* ---- CmpF64 in the shadow-branch mode ---- *)
(* the comparison encodings the callback names, and what a caller can  *)
(* find in the return register after a return statement without value *)
Orderings == {"Ircr_LT", "Ircr_EQ", "Ircr_GT"}
Indeterminate == Orderings \cup {"Ircr_UN", "other"}
ordering(tv) ==
  IF tv > 0 THEN "Ircr_GT" ELSE IF tv = 0 THEN "Ircr_EQ" ELSE "Ircr_LT"

cmpMiddle(a, b) == mpfr_cmp(a.midX.x, b.midX.x)
cmpShadow(a, b) == mpfr_cmp(a.tmpX.x, b.tmpX.x)
cmpOriginal(a, b) == mpfr_cmp(a.oriX.x, b.oriX.x)

cmpRecord(addr, wrTmp, src1, src2) ==
  [NoOp EXCEPT !.kind = "CmpF64", !.addr = addr, !.op = "Iop_CmpF64",
               !.wrTmp = wrTmp, !.srcs = <<src1, src2>>,
               !.args = <<insteadOf(src1), insteadOf(src2)>>,
               !.fresh = {src1, src2} \cap drifted]

cmpEvaluate(rec, a, b) ==
  IF a.asserts \/ b.asserts
  THEN /\ assertFailed' = TRUE
       /\ lastOp' = rec
       /\ UNCHANGED <<localTemps, argX>>
  ELSE /\ localTemps' = recoveredTemps(rec.args, a, b)
       /\ argX' = withSlot(withSlot(argX, Slot1, a), Slot2, b)
       /\ lastOp' = [rec EXCEPT !.gotSV = TRUE,
                                !.ret = ordering(cmpShadow(a, b)),
                                !.notice = (cmpShadow(a, b) # cmpOriginal(a, b))]
       /\ UNCHANGED assertFailed

(* the statement t = CmpF64(e1, e2): without the shadow-branch option the *)
(* guest's own comparison runs; with it the statement is replaced by the  *)
(* callback, whose return value is written to t                           *)
processCmpF64(addr, wrTmp, src1, c1, src2, c2) ==
  /\ ~assertFailed /\ inBlock /\ wrTmp \notin assigned
  /\ operandOk("Iop_CmpF64", src1) /\ operandOk("Iop_CmpF64", src2)
  /\ assigned' = assigned \cup {wrTmp}
  /\ guestTmp' = [guestTmp EXCEPT ![wrTmp] = [x |-> Fin(0), ty |-> "I32"]]
  /\ IF ~clo_goto_shadow_branch
     THEN /\ lastOp' = [cmpRecord(addr, wrTmp, src1, src2) EXCEPT !.ret = "guest"]
          /\ UNCHANGED <<localTemps, argX, assertFailed, drifted>>
     ELSE IF ~clo_analyze
     THEN /\ \E ret \in Indeterminate :
               lastOp' = [cmpRecord(addr, wrTmp, src1, src2) EXCEPT !.ret = ret]
          /\ UNCHANGED <<localTemps, argX, assertFailed, drifted>>
     ELSE /\ cmpEvaluate([cmpRecord(addr, wrTmp, src1, src2) EXCEPT
                            !.operands = <<operandValue(src1, c1).x,
                                           operandValue(src2, c2).x>>],
                         readOperand(Slot1, DOUBLE_PRECISION, src1 = NoTmp,
                                     insteadOf(src1), operandValue(src1, c1), TRUE),
                         readOperand(Slot2, DOUBLE_PRECISION, src2 = NoTmp,
                                     insteadOf(src2), operandValue(src2, c2), TRUE))
          /\ drifted' = drifted \ {src1, src2}
  /\ UNCHANGED <<clo_analyze, optVars, sbExecuted, inBlock, tid, tmpInstead,
                 threadRegisters, globalMemory, guestMem, meanValues, psoVars,
                 stageVars, avFrees, svWritten, memWrite, memFresh, regWrite,
                 evalCount, observed>>
  /\ countMallocs

(* ---- the carrier specification: transfers, one producer, reset ---- *)
NumCarrierTemps == 1
CarrierTemps == 0 .. (NumCarrierTemps - 1)
CarrierSources == CarrierTemps \cup {NoTmp}
One == F64(Fin(1))

Init == InitOpts({FALSE}, {FALSE}, {FALSE})

EnterSB == \E n \in Threads : instrumentEnterSB(n)
Load == \E t \in CarrierTemps, a \in Addrs : processLoad(t, a)
Store == \E a \in Addrs, d \in CarrierSources : processStore(a, d, One)
Put == \E o \in Offsets, d \in CarrierSources : processPut(o, d)
Get == \E o \in Offsets, t \in CarrierTemps : processGet(o, t, One)
PutI == \E d \in CarrierSources, b \in Offsets, n \in 1 .. NumOffsets, ix \in 0 .. 1 :
          b + n <= NumOffsets /\ processPutI(d, b, n, ix, 0)
GetI == \E t \in CarrierTemps, b \in Offsets, n \in 1 .. NumOffsets, ix \in 0 .. 1 :
          b + n <= NumOffsets /\ processGetI(t, b, n, ix, 0, One)
Produce == \E t \in CarrierTemps :
             processBinOp(1, "Iop_Add64F0x2", t, NoTmp, One, NoTmp, GuestZero, Fin(1))
Reset == resetShadowValues
Begin == beginAnalyzing
End == endAnalyzing

Next ==
  \/ EnterSB \/ Load \/ Store \/ Put \/ Get \/ PutI \/ GetI
  \/ Produce \/ Reset \/ Begin \/ End

Spec == Init /\ [][Next]_vars

(* C1: a temp's shadow value is observable only in the block execution   *)
(* that wrote it: getTemp(t) is present only for a temp that setTemp has *)
(* stamped since the last block entry (whatever the active flag says),   *)
(* and inside a block every temp stamped in it is present.               *)
C1_TempObservable ==
  \A t \in Temps :
    /\ getTemp(t).alloc => t \in svWritten
    /\ (inBlock /\ t \in svWritten) => getTemp(t).alloc

(* a later block execution in which an active shadow value of an earlier *)
(* block still sits in the temp table and is not returned                *)
C1_Witness ==
  \E t \in Temps :
    /\ inBlock /\ localTemps[t].alloc /\ localTemps[t].active
    /\ localTemps[t].version > 0 /\ localTemps[t].version < sbExecuted
    /\ ~getTemp(t).alloc

(* C2: once the latest write to a memory address or to a (thread,        *)
(* offset) register was untracked (a constant, or a temp without a       *)
(* present shadow value), a Load / Get / GetI of that carrier leaves its *)
(* destination temp without a shadow value.                              *)
C2_UntrackedRead ==
  /\ (lastOp.kind = "Load" /\ memWrite[lastOp.addr] = "untracked")
       => ~getTemp(lastOp.wrTmp).alloc
  /\ (lastOp.kind \in {"Get", "GetI"} /\ lastOp.addr \in Offsets
        /\ regWrite[<<tid, lastOp.addr>>] = "untracked")
       => ~getTemp(lastOp.wrTmp).alloc

(* a Load, with the analysis on, of an address whose shadow value exists *)
(* and was deactivated by an untracked Store                             *)
C2_Witness ==
  /\ lastOp.kind = "Load" /\ clo_analyze
  /\ memWrite[lastOp.addr] = "untracked"
  /\ globalMemory[lastOp.addr].alloc
  /\ ~getTemp(lastOp.wrTmp).alloc

(* C10: right after RESET no carrier yields a shadow value: getTemp is   *)
(* absent for every temp and no register entry of any thread and no      *)
(* memory entry is one that Get / GetI / Load would copy.                *)
C10_ResetClears ==
  lastOp.kind = "RESET" =>
    /\ \A t \in Temps : ~getTemp(t).alloc
    /\ \A r \in Threads \X Offsets : ~readable(threadRegisters[r])
    /\ \A a \in Addrs : ~readable(globalMemory[a])

(* a RESET that found a temp, a register and a memory shadow value *)
C10_Witness ==
  /\ lastOp.kind = "RESET"
  /\ \E t \in Temps : localTemps[t].alloc
  /\ \E r \in Threads \X Offsets : threadRegisters[r].alloc
  /\ \E a \in Addrs : globalMemory[a].alloc

(* C11: RESET is idempotent: a RESET taken right after a RESET leaves the *)
(* whole program state as the first one left it.                         *)
progVars == <<clo_analyze, optVars, blockVars, storeVars, guestVars, evalVars,
              assertFailed>>
C11_ResetIdempotent ==
  [][(lastOp'.kind = "RESET" /\ lastOp'.prev = "RESET") => UNCHANGED progVars]_vars
C11_Witness ==
  /\ lastOp.kind = "RESET" /\ lastOp.prev = "RESET"
  /\ \E t \in Temps : localTemps[t].alloc
  /\ \E a \in Addrs : globalMemory[a].alloc

(* ---- the evaluator specification: a program of four operations, on ---- *)
(* constants, on temps read from registers that hold no shadow value, and  *)
(* on earlier results                                                      *)
opAt(o) ==
  IF o = 1 THEN "Iop_Sub64F0x2"
  ELSE IF o = 2 THEN "Iop_AddF64"
  ELSE IF o = 3 THEN "Iop_NegF64"
  ELSE "Iop_Add32F0x4"
Sources == Temps \cup {NoTmp}
Four == Fin(4)
Five == Fin(5)
constOf(op, v) == [x |-> v, ty |-> opTy(op)]

InitEval == InitOpts({FALSE, TRUE}, {FALSE}, {FALSE})

EvalEnterSB == instrumentEnterSB(1)
EvalGet == \E o \in Offsets, t \in Temps : processGet(o, t, F64(Four))
EvalUnOp == \E t \in Temps, s \in Temps :
              processUnOp(3, opAt(3), t, s, GuestZero, orgUnary(opAt(3), guestTmp[s]))
EvalBinOp ==
  \E o \in {1, 4}, t \in Temps, s1 \in Sources, s2 \in Sources :
    LET c1 == constOf(opAt(o), Five)
        c2 == constOf(opAt(o), Four)
    IN processBinOp(o, opAt(o), t, s1, c1, s2, c2,
                    orgArith(opAt(o), operandValue(s1, c1), operandValue(s2, c2)))
EvalTriOp ==
  \E t \in Temps, s2 \in Sources, s3 \in Sources :
    LET c2 == constOf(opAt(2), Five)
        c3 == constOf(opAt(2), Four)
    IN processTriOp(2, opAt(2), t, s2, c2, s3, c3,
                    orgArith(opAt(2), operandValue(s2, c2), operandValue(s3, c3)))

NextEval == EvalEnterSB \/ EvalGet \/ EvalUnOp \/ EvalBinOp \/ EvalTriOp

SpecEval == InitEval /\ [][NextEval]_vars

(* the shadow value of the i-th operand of the last evaluation (NULL for *)
(* a constant or a temp without one) and the scratch slots it was read   *)
(* into                                                                  *)
Evaluations == {"UnOp", "BinOp", "TriOp"}
lastArg(i) ==
  IF lastOp.args[i] = NoTmp THEN NULL ELSE getTemp(lastOp.args[i])
lastSlot(i) ==
  IF lastOp.kind = "TriOp" THEN (IF i = 1 THEN Slot2 ELSE Slot3)
  ELSE (IF i = 1 THEN Slot1 ELSE Slot2)

(* C4: the result's opCount is 1 + the maximum of the operands' opCounts, *)
(* a constant and a temp without a present shadow value counting as 0.    *)
C4_OpCount ==
  (lastOp.kind \in Evaluations /\ lastOp.gotSV) =>
    LET n(i) == IF lastArg(i).alloc THEN lastArg(i).opCount ELSE 0
    IN getTemp(lastOp.wrTmp).opCount =
         1 + (IF Len(lastOp.args) = 1 THEN n(1) ELSE MaxInt(n(1), n(2)))

(* a two-operand evaluation of an earlier result and a constant *)
C4_Witness ==
  /\ lastOp.kind \in {"BinOp", "TriOp"} /\ lastOp.gotSV
  /\ lastArg(1).alloc /\ lastArg(1).opCount = 1
  /\ lastOp.args[2] = NoTmp
  /\ getTemp(lastOp.wrTmp).opCount = 2

(* C5: a binary or ternary result's canceled is the maximum of the op's   *)
(* own cancellation bits and the canceled of every operand that has a     *)
(* shadow value, and its cancelOrigin is the address that goes with that  *)
(* maximum; a unary result carries its operand's canceled and             *)
(* cancelOrigin unchanged.                                                *)
C5_MaxCanceled ==
  (lastOp.kind \in Evaluations /\ lastOp.gotSV) =>
    LET res == getTemp(lastOp.wrTmp)
        cands == {<<lastOp.canceled, lastOp.addr>>} \cup
                 {<<lastArg(i).canceled, lastArg(i).cancelOrigin>> :
                    i \in {j \in DOMAIN lastOp.args : lastArg(j).alloc}}
    IN IF lastOp.kind = "UnOp"
       THEN lastArg(1).alloc =>
              /\ res.canceled = lastArg(1).canceled
              /\ res.cancelOrigin = lastArg(1).cancelOrigin
       ELSE /\ <<res.canceled, res.cancelOrigin>> \in cands
            /\ \A c \in cands : res.canceled >= c[1]

(* an evaluation whose operand brought more cancellation than the op's *)
(* own, from another address                                           *)
C5_Witness ==
  /\ lastOp.kind \in {"BinOp", "TriOp"} /\ lastOp.gotSV
  /\ getTemp(lastOp.wrTmp).canceled > lastOp.canceled
  /\ getTemp(lastOp.wrTmp).cancelOrigin # lastOp.addr

(* C6: the own cancellation bits of an add or sub are                    *)
(* max(0, max(exp(arg1), exp(arg2)) - exp(result)) when both operands    *)
(* and the result are regular, and 0 otherwise; they are never negative. *)
C6_CancelBits ==
  (lastOp.kind \in {"BinOp", "TriOp"} /\ lastOp.gotSV /\ isAddSub(lastOp.op)) =>
    LET a1 == argX[lastSlot(1)[1]].x
        a2 == argX[lastSlot(2)[1]].x
        r == getTemp(lastOp.wrTmp).value.x
    IN /\ lastOp.canceled >= 0
       /\ lastOp.canceled =
            IF mpfr_regular_p(a1) /\ mpfr_regular_p(a2) /\ mpfr_regular_p(r)
            THEN MaxInt(0, MaxInt(mpfr_get_exp(a1), mpfr_get_exp(a2)) - mpfr_get_exp(r))
            ELSE 0

(* a subtraction that cancelled leading bits *)
C6_Witness ==
  /\ lastOp.kind \in {"BinOp", "TriOp"} /\ lastOp.gotSV /\ isAddSub(lastOp.op)
  /\ lastOp.canceled > 0

(* C8: after an evaluation the result's midValue and oriValue have       *)
(* precision 24 for an op classified as 32-bit and 53 otherwise.         *)
C8_ResultPrecision ==
  (lastOp.kind \in Evaluations /\ lastOp.gotSV) =>
    LET res == getTemp(lastOp.wrTmp)
        p == IF isOpFloat(lastOp.op) THEN FLOAT_PRECISION ELSE DOUBLE_PRECISION
    IN res.midValue.prec = p /\ res.oriValue.prec = p

(* a 32-bit op evaluated in a later block, into a reused entry *)
C8_Witness ==
  /\ lastOp.kind = "BinOp" /\ lastOp.gotSV /\ isOpFloat(lastOp.op)
  /\ sbExecuted > 1
  /\ getTemp(lastOp.wrTmp).midValue.prec = FLOAT_PRECISION

(* ---- the drift specification: a double result is stored, the guest ---- *)
(* overwrites it (by a Store of a constant, by a Store of the result      *)
(* narrowed to a float, or by a write that no callback sees), and a later *)
(* block loads the address and evaluates                                  *)
InitDrift == InitOpts({FALSE}, {FALSE}, {FALSE})

DriftEnterSB == instrumentEnterSB(1)
DriftProduce ==
  \E t \in Temps :
    processBinOp(1, "Iop_Sub64F0x2", t, NoTmp, F64(BigDouble), NoTmp, GuestZero,
                 orgArith("Iop_Sub64F0x2", F64(BigDouble), GuestZero))
DriftNarrow == \E d \in Temps, src \in Temps : passThrough("Iop_F64toF32", d, src)
DriftStore == \E a \in Addrs, d \in Sources : processStore(a, d, F64(Four))
DriftWrite == \E a \in Addrs : uninstrumentedWrite(a, F64(Four))
DriftLoad == \E t \in Temps, a \in Addrs : processLoad(t, a)
DriftUnOp ==
  \E t \in Temps, src \in Temps :
    LET op == IF guestTmp[src].ty = "F32" THEN "Iop_NegF32" ELSE "Iop_NegF64"
    IN processUnOp(3, op, t, src, GuestZero, orgUnary(op, guestTmp[src]))
DriftBinOp ==
  \E t \in Temps, src \in Temps :
    LET op == IF guestTmp[src].ty = "F32" THEN "Iop_Add32F0x4" ELSE "Iop_Add64F0x2"
        c == constOf(op, Four)
    IN processBinOp(4, op, t, src, c, NoTmp, c, orgArith(op, guestTmp[src], c))

NextDrift ==
  \/ DriftEnterSB \/ DriftProduce \/ DriftNarrow \/ DriftStore \/ DriftWrite
  \/ DriftLoad \/ DriftUnOp \/ DriftBinOp

SpecDrift == InitDrift /\ [][NextDrift]_vars

(* C3: an evaluator operand read of a temp loaded from an address that the *)
(* guest overwrote with a fresh value x while it held an active shadow     *)
(* value uses exactly x in the value, midValue and oriValue channels, and  *)
(* no assertion fires.                                                     *)
C3_DriftRepaired ==
  (lastOp.kind \in Evaluations /\ lastOp.fresh # {}) =>
    /\ ~assertFailed
    /\ \A i \in DOMAIN lastOp.srcs :
         lastOp.srcs[i] \in lastOp.fresh =>
           \A n \in 1 .. 3 : argX[lastSlot(i)[n]].x = guestTmp[lastOp.srcs[i]].x

(* ---- the mean-value specification: statistics on, three operations  ---- *)
(* whose operands come from registers that hold no shadow value            *)
MeanInputs == {F64(Five), F64(NaN), F32(Four), F32(Fin(Pow2(FLOAT_PRECISION)))}

InitMean == InitOpts({FALSE}, {TRUE}, {FALSE})

MeanEnterSB == instrumentEnterSB(1)
MeanGet == \E o \in Offsets, t \in Temps, g \in MeanInputs : processGet(o, t, g)
MeanMin ==
  \E t \in Temps, src \in Temps :
    processBinOp(1, "Iop_Min64F0x2", t, NoTmp, F64(Four), src, GuestZero,
                 orgArith("Iop_Min64F0x2", F64(Four), guestTmp[src]))
MeanNeg ==
  \E t \in Temps, src \in Temps :
    processUnOp(3, "Iop_NegF64", t, src, GuestZero,
                orgUnary("Iop_NegF64", guestTmp[src]))
MeanAdd ==
  \E t \in Temps, src \in Temps :
    processBinOp(4, "Iop_Add32F0x4", t, src, GuestZero, NoTmp, F32(Fin(1)),
                 orgArith("Iop_Add32F0x4", guestTmp[src], F32(Fin(1))))

NextMean == MeanEnterSB \/ MeanGet \/ MeanMin \/ MeanNeg \/ MeanAdd

SpecMean == InitMean /\ [][NextMean]_vars

(* C7: with the statistics on, for every origin the count is the number  *)
(* of evaluations performed there and the max is at least every relative *)
(* error observed there (a NaN error is not comparable and is left out). *)
C7_MeanStats ==
  \A o \in Origins :
    /\ meanValues[o].count = evalCount[o]
    /\ \A e \in observed[o] :
         e.k # "nan" =>
           /\ meanValues[o].max.k # "nan"
           /\ ~relGreater(e, meanValues[o].max)

(* ---- the round-trip specification: float and double results reach ---- *)
(* memory (a float result also widened to a double), the guest stores a  *)
(* double constant, and the client asks for the two transfers            *)
InitTrip == InitOpts({FALSE, TRUE}, {FALSE}, {FALSE})

TripEnterSB == instrumentEnterSB(1)
TripProduce ==
  \E t \in Temps, o \in {1, 4} :
    processBinOp(o, opAt(o), t, NoTmp, constOf(opAt(o), Five), NoTmp,
                 constOf(opAt(o), Four),
                 orgArith(opAt(o), constOf(opAt(o), Five), constOf(opAt(o), Four)))
TripWiden == \E d \in Temps, src \in Temps : passThrough("Iop_F32toF64", d, src)
TripStore == \E a \in Addrs, d \in Sources : processStore(a, d, F64(BigDouble))
TripToShadow == \E a \in Addrs : originalToShadow(a)
TripToOriginal == \E a \in Addrs : shadowToOriginal(a)

NextTrip ==
  \/ TripEnterSB \/ TripProduce \/ TripWiden \/ TripStore
  \/ TripToShadow \/ TripToOriginal

SpecTrip == InitTrip /\ [][NextTrip]_vars

(* C9: at an address with a memory shadow value, ORIGINAL_TO_SHADOW       *)
(* followed at once by SHADOW_TO_ORIGINAL leaves the guest value as it    *)
(* was and leaves the entry's value equal to it, in every mode.           *)
C9_RoundTrip ==
  (/\ lastOp.kind = "SHADOW_TO_ORIGINAL" /\ lastOp.prev = "ORIGINAL_TO_SHADOW"
   /\ globalMemory[lastOp.addr].alloc) =>
    /\ ~assertFailed
    /\ guestMem[lastOp.addr] = lastOp.guest
    /\ globalMemory[lastOp.addr].value.x = guestMem[lastOp.addr].x

(* ---- the detector specification: runs and instances of a float program ---- *)
(* that adds 1 to 2^24 (the float result drops the 1) and subtracts 2^24      *)
(* again, in single precision at origin 1 and, after widening, in double     *)
(* precision at origin 2                                                      *)
MaxRunCount == 1
BigFloat == Fin(16777216)
psoOpAt(o) ==
  IF o = 1 THEN "Iop_Sub32F0x4"
  ELSE IF o = 2 THEN "Iop_SubF64"
  ELSE "Iop_Add32F0x4"
counterOk(o) == errorMap.nodes[o].totalCnt < MaxRunCount

InitPSO == InitFlags({FALSE}, {FALSE}, {FALSE}, {FALSE, TRUE}, {0, 60})

PsoEnterSB == instrumentEnterSB(1)
PsoProduce ==
  \E t \in Temps :
    /\ counterOk(4)
    /\ processBinOp(4, psoOpAt(4), t, NoTmp, F32(BigFloat), NoTmp, F32(Fin(1)),
                    orgArith(psoOpAt(4), F32(BigFloat), F32(Fin(1))))
PsoCancel ==
  \E t \in Temps, src \in Temps :
    /\ counterOk(1)
    /\ processBinOp(1, psoOpAt(1), t, src, GuestZero, NoTmp, F32(BigFloat),
                    orgArith(psoOpAt(1), guestTmp[src], F32(BigFloat)))
PsoCancel64 ==
  \E t \in Temps, src \in Temps :
    /\ counterOk(2)
    /\ processTriOp(2, psoOpAt(2), t, src, GuestZero, NoTmp, F64(BigFloat),
                    orgArith(psoOpAt(2), guestTmp[src], F64(BigFloat)))
PsoWiden == \E d \in Temps, src \in Temps : passThrough("Iop_F32toF64", d, src)
PsoStore == \E d \in Temps : processStore(1, d, GuestZero)
PsoLoad == \E t \in Temps : processLoad(t, 1)
PsoBeginRun == beginOneRun
PsoEndRun == \E freedCrash \in BOOLEAN : endOneRun(freedCrash)
PsoBeginInstance == beginOneInstance

NextPSO ==
  \/ PsoEnterSB \/ PsoProduce \/ PsoCancel \/ PsoCancel64
  \/ PsoWiden \/ PsoStore \/ PsoLoad
  \/ PsoBeginRun \/ PsoEndRun \/ PsoBeginInstance

SpecPSO == InitPSO /\ [][NextPSO]_vars

(* C12: after every PSO_END_RUN detectedPSO holds no origin whose        *)
(* candidate is marked false positive, and no evaluation substitutes the *)
(* middle value for the value at an origin marked false positive.        *)
C12_FalsePositivePurged ==
  /\ (lastOp.kind = "PSO_END_RUN" /\ ~assertFailed) =>
       \A o \in Origins : ~(detectedPSO[o].present /\ detectedPSO[o].falsePositive)
  /\ (lastOp.kind \in {"BinOp", "TriOp"} /\ lastOp.gotSV /\ needFix(lastOp.addr)) =>
       ~detectedPSO[lastOp.addr].falsePositive

(* C13: with the detector on, an evaluation at an origin of detectedPSO   *)
(* seeds the operands' middle scratch values from their high-precision    *)
(* scratch values, computes the middle value from them, and leaves the    *)
(* value equal to the middle value.                                       *)
C13_FixApplied ==
  (lastOp.kind \in {"BinOp", "TriOp"} /\ lastOp.gotSV /\ needFix(lastOp.addr)) =>
    LET res == getTemp(lastOp.wrTmp)
        p == opPrec(lastOp.op)
        m1 == argX[lastSlot(1)[2]].x
        m2 == argX[lastSlot(2)[2]].x
    IN /\ m1 = RoundNum(argX[lastSlot(1)[1]].x, p)
       /\ m2 = RoundNum(argX[lastSlot(2)[1]].x, p)
       /\ res.midValue.x = RoundNum(arithResult(lastOp.op, m1, m2), p)
       /\ res.value.x = res.midValue.x

(* a fixed evaluation whose first operand arrived with a middle value *)
(* that differs from its rounded value                                *)
C13_Witness ==
  /\ lastOp.kind \in {"BinOp", "TriOp"} /\ lastOp.gotSV /\ needFix(lastOp.addr)
  /\ lastArg(1).alloc
  /\ lastArg(1).midValue.x # RoundNum(lastArg(1).value.x, opPrec(lastOp.op))

(* ---- the stage specification: iterations of a stage in which exact, ---- *)
(* rounded and cancelled float results are stored to one address           *)
MaxIterations == 3
stageOpAt(o) == IF o = 1 THEN "Iop_Sub32F0x4" ELSE "Iop_Add32F0x4"

InitStage == InitOpts({FALSE}, {FALSE}, {FALSE})

StageEnterSB == instrumentEnterSB(1)
StageProduce ==
  \E c \in {F32(Five), F32(BigFloat)} :
    processBinOp(4, stageOpAt(4), 0, NoTmp, c, NoTmp, F32(Fin(1)),
                 orgArith(stageOpAt(4), c, F32(Fin(1))))
StageCancel ==
  processBinOp(1, stageOpAt(1), 1, 0, GuestZero, NoTmp, F32(BigFloat),
               orgArith(stageOpAt(1), guestTmp[0], F32(BigFloat)))
StageStore == \E d \in Temps : processStore(1, d, GuestZero)
StageBegin ==
  \E num \in Stages \cup {MAX_STAGES} :
    /\ num \in Stages => stages[num].count < MaxIterations
    /\ stageStart(num)
StageEnd == \E num \in Stages : stageEnd(num)
(* a stage is cleared between two iterations, before its first report *)
StageClear ==
  \E num \in Stages :
    /\ ~stages[num].active /\ stageReports[num].table = "null"
    /\ stageClear(num)

NextStage ==
  \/ StageEnterSB \/ StageProduce \/ StageCancel \/ StageStore
  \/ StageBegin \/ StageEnd \/ StageClear

SpecStage == InitStage /\ [][NextStage]_vars

(* C14: the END_STAGE of the second iteration of a stage, for an address *)
(* stored with a shadow value in both iterations with different relative *)
(* errors, leaves a report of that address with iterMin = iterMax = 2    *)
(* and the limit of the address at |rel_old - rel_new|.                  *)
C14_StageReport ==
  (lastOp.kind = "END_STAGE" /\ ~assertFailed /\ stages[lastOp.addr].count = 2) =>
    \A m \in lastOp.mates :
      m[2] # m[3] =>
        /\ stageReports[lastOp.addr].nodes[m[1]].present
        /\ stageReports[lastOp.addr].nodes[m[1]].iterMin = 2
        /\ stageReports[lastOp.addr].nodes[m[1]].iterMax = 2
        /\ stages[lastOp.addr].limits[m[1]].present
        /\ stages[lastOp.addr].limits[m[1]].limit = relAbsDiff(m[2], m[3])

(* C15: while no assertion has failed, avMallocs - avFrees is the number *)
(* of shadow values that are active: the allocated entries of the temp,  *)
(* register and memory tables whose active flag is set.                  *)
activeCount ==
  Cardinality({t \in Temps : localTemps[t].alloc /\ localTemps[t].active})
  + Cardinality({r \in Threads \X Offsets :
                   threadRegisters[r].alloc /\ threadRegisters[r].active})
  + Cardinality({a \in Addrs : globalMemory[a].alloc /\ globalMemory[a].active})
C15_MallocBalance ==
  ~assertFailed => avMallocs - avFrees = activeCount

(* ---- the comparison specification: shadow-branch mode on or off ---- *)
InitCmp == InitAll({FALSE, TRUE}, {FALSE}, {FALSE}, {FALSE}, {0}, {FALSE, TRUE})

CmpEnterSB == instrumentEnterSB(1)
CmpProduce ==
  \E c \in {F32(Five), F32(BigFloat)} :
    processBinOp(4, "Iop_Add32F0x4", 0, NoTmp, c, NoTmp, F32(Fin(1)),
                 orgArith("Iop_Add32F0x4", c, F32(Fin(1))))
CmpWiden == passThrough("Iop_F32toF64", 1, 0)
CmpStore == \E d \in Temps : processStore(1, d, GuestZero)
CmpLoad == \E t \in Temps : processLoad(t, 1)
CmpCompare ==
  \E t \in Temps, src1 \in Sources, src2 \in Sources, c \in {BigFloat, NaN} :
    processCmpF64(1, t, src1, F64(BigFloat), src2, F64(c))
CmpBegin == beginAnalyzing
CmpEnd == endAnalyzing

NextCmp ==
  \/ CmpEnterSB \/ CmpProduce \/ CmpWiden \/ CmpStore \/ CmpLoad
  \/ CmpCompare \/ CmpBegin \/ CmpEnd

SpecCmp == InitCmp /\ [][NextCmp]_vars

(* C16: every execution of the CmpF64 callback hands one of the three  *)
(* encodings LT, EQ, GT back to the guest, whatever the operands are   *)
(* and also while the analysis is switched off.                        *)
C16_CmpReturnsOrdering ==
  (lastOp.kind = "CmpF64" /\ clo_goto_shadow_branch /\ ~assertFailed) =>
    lastOp.ret \in Orderings

(* the operands of the last comparison as the claim names them: the    *)
(* high-precision and the simulated-original value of a tracked        *)
(* operand, the guest value of a constant or an untracked temp         *)
shadowOperand(i) ==
  IF lastArg(i).alloc THEN lastArg(i).value.x ELSE lastOp.operands[i]
originalOperand(i) ==
  IF lastArg(i).alloc THEN lastArg(i).oriValue.x ELSE lastOp.operands[i]

InitMux == InitOpts({FALSE, TRUE}, {FALSE}, {FALSE})

MuxEnterSB == instrumentEnterSB(1)
MuxProduce ==
  \E c \in {F32(Five), F32(BigFloat)} :
    processBinOp(4, "Iop_Add32F0x4", 0, NoTmp, c, NoTmp, F32(Fin(1)),
                 orgArith("Iop_Add32F0x4", c, F32(Fin(1))))
MuxStore == \E d \in Sources : processStore(1, d, F32(Five))
MuxLoad == \E t \in Temps : processLoad(t, 1)
MuxSelect ==
  \E t \in Temps, condVal \in 0 .. 1, expr0 \in Sources, exprX \in Sources :
    processMux0X(t, condVal, expr0, F32(Five), exprX, F32(Five))
MuxBegin == beginAnalyzing
MuxEnd == endAnalyzing

NextMux ==
  \/ MuxEnterSB \/ MuxProduce \/ MuxStore \/ MuxLoad \/ MuxSelect
  \/ MuxBegin \/ MuxEnd

SpecMux == InitMux /\ [][NextMux]_vars

(* the two sides of the last Mux: the side the guest condition selected *)
(* and the other one, NULL for a constant or a temp without a present   *)
(* shadow value                                                         *)
sideOf(num) == IF num = NoTmp THEN NULL ELSE getTemp(num)
lastSelected == sideOf(lastOp.args[IF lastOp.condVal # 0 THEN 2 ELSE 1])
lastUnselected == sideOf(lastOp.args[IF lastOp.condVal # 0 THEN 1 ELSE 2])

sameShadow(a, b) ==
  /\ a.value.x = b.value.x /\ a.midValue.x = b.midValue.x
  /\ a.oriValue.x = b.oriValue.x
  /\ a.opCount = b.opCount /\ a.origin = b.origin
  /\ a.canceled = b.canceled /\ a.cancelOrigin = b.cancelOrigin
  /\ a.orgType = b.orgType /\ a.Org = b.Org

(* C18: while the analysis is on, after t = Mux(cond, e0, eX) the temp t *)
(* holds a copy of the shadow value of the side that cond selected when  *)
(* that side is a temp with a present shadow value; when the selected    *)
(* side is a constant or a temp without one, t has no shadow value,      *)
(* whatever the other side holds.                                        *)
C18_MuxSelects ==
  (lastOp.kind = "Mux" /\ clo_analyze) =>
    IF lastSelected.alloc
    THEN getTemp(lastOp.wrTmp).alloc /\ sameShadow(getTemp(lastOp.wrTmp), lastSelected)
    ELSE ~getTemp(lastOp.wrTmp).alloc

C18_Witness ==
  /\ lastOp.kind = "Mux" /\ clo_analyze
  /\ ~lastSelected.alloc
  /\ lastUnselected.alloc
  /\ ~getTemp(lastOp.wrTmp).alloc
  /\ localTemps[lastOp.wrTmp].alloc

(* ---- the summation specification: an accumulator in memory ---- *)
(* every block is one round: it loads the accumulator, either adds a  *)
(* constant to it or passes it through a register, an indexed         *)
(* register or a Mux, and stores the result back                      *)
MaxRounds == 6
SumConsts == {Fin(1), BigDouble, Fin(0 - 16777216)}

InitSum == InitOpts({FALSE, TRUE}, {TRUE}, {FALSE})

SumEnterSB ==
  /\ sbExecuted = 0 \/ lastOp.kind = "Store"
  /\ enterSB(1, MaxRounds)
SumLoad == lastOp.kind = "EnterSB" /\ processLoad(0, 1)
SumAdd ==
  /\ lastOp.kind = "Load"
  /\ \E c \in SumConsts :
       processBinOp(1, "Iop_Add64F0x2", 1, 0, GuestZero, NoTmp, F64(c),
                    orgArith("Iop_Add64F0x2", guestTmp[0], F64(c)))
SumPut == lastOp.kind = "Load" /\ processPut(0, 0)
SumGet == lastOp.kind = "Put" /\ processGet(0, 1, guestTmp[0])
SumPutI == lastOp.kind = "Load" /\ processPutI(0, 0, 1, 0, 0)
SumGetI == lastOp.kind = "PutI" /\ processGetI(1, 0, 1, 0, 0, guestTmp[0])
SumMux ==
  /\ lastOp.kind = "Load"
  /\ \E condVal \in 0 .. 1 :
       processMux0X(1, condVal, IF condVal = 0 THEN 0 ELSE NoTmp, F64(Five),
                    IF condVal # 0 THEN 0 ELSE NoTmp, F64(Five))
SumStore ==
  /\ lastOp.kind \in {"BinOp", "Get", "GetI", "Mux"}
  /\ processStore(1, 1, GuestZero)

NextSum ==
  \/ SumEnterSB \/ SumLoad \/ SumAdd \/ SumPut \/ SumGet \/ SumPutI \/ SumGetI
  \/ SumMux \/ SumStore

SpecSum == InitSum /\ [][NextSum]_vars

sameMeta(a, b) ==
  /\ a.opCount = b.opCount /\ a.origin = b.origin
  /\ a.canceled = b.canceled /\ a.cancelOrigin = b.cancelOrigin

(* C19: a transfer whose source holds a present shadow value leaves the  *)
(* destination with the source's opCount, origin, canceled and           *)
(* cancelOrigin; and after the store that ends a round the accumulator's *)
(* memory shadow value has as its opCount the number of additions made   *)
(* so far (no shadow value before the first addition).                   *)
C19_MetadataSurvives ==
  /\ (lastOp.kind = "Load" /\ readable(globalMemory[lastOp.addr])) =>
       /\ getTemp(lastOp.wrTmp).alloc
       /\ sameMeta(getTemp(lastOp.wrTmp), globalMemory[lastOp.addr])
  /\ (lastOp.kind = "Store" /\ sideOf(lastOp.args[1]).alloc) =>
       /\ readable(globalMemory[lastOp.addr])
       /\ sameMeta(globalMemory[lastOp.addr], sideOf(lastOp.args[1]))
  /\ (lastOp.kind \in {"Put", "PutI"} /\ sideOf(lastOp.args[1]).alloc) =>
       /\ readable(threadRegisters[<<tid, lastOp.addr>>])
       /\ sameMeta(threadRegisters[<<tid, lastOp.addr>>], sideOf(lastOp.args[1]))
  /\ (lastOp.kind \in {"Get", "GetI"}
      /\ readable(threadRegisters[<<tid, lastOp.addr>>])) =>
       /\ getTemp(lastOp.wrTmp).alloc
       /\ sameMeta(getTemp(lastOp.wrTmp), threadRegisters[<<tid, lastOp.addr>>])
  /\ (lastOp.kind = "Mux" /\ lastSelected.alloc) =>
       /\ getTemp(lastOp.wrTmp).alloc
       /\ sameMeta(getTemp(lastOp.wrTmp), lastSelected)
  /\ lastOp.kind = "Store" =>
       IF evalCount[1] = 0 THEN ~readable(globalMemory[1])
       ELSE /\ readable(globalMemory[1])
            /\ globalMemory[1].opCount = evalCount[1]

C19_Witness ==
  /\ lastOp.kind = "Store"
  /\ sbExecuted = MaxRounds
  /\ evalCount[1] = 5
  /\ globalMemory[1].opCount = 5
  /\ globalMemory[1].canceled > 0

(* ---- the translation of one block ---- *)
(* an input block is a sequence of statement kinds; IMarkLib is the mark *)
(* of an instruction that lies in a library, Exit stands for every       *)
(* statement that is appended and not instrumented                       *)
MaxStmts == 3
StmtKinds == {"NoOp", "IMark", "IMarkLib", "Put", "Exit", "Load", "NegF64",
              "Add64F0x2", "CmpF64", "F64toI32S", "Mux0X", "Store"}
Blocks == UNION {[1 .. n -> StmtKinds] : n \in 1 .. MaxStmts}

isIMark(k) == k \in {"IMark", "IMarkLib"}
firstIMark(b) ==
  IF \E i \in 1 .. Len(b) : isIMark(b[i])
  THEN CHOOSE i \in 1 .. Len(b) :
         isIMark(b[i]) /\ \A j \in 1 .. (i - 1) : ~isIMark(b[j])
  ELSE Len(b) + 1

(* what the output block holds: a statement of the input as it is, or *)
(* something that an instrument function appended                     *)
stmtAt(i) == [tag |-> "stmt", pos |-> i, by |-> "sbIn"]
addedAt(i, by) == [tag |-> "added", pos |-> i, by |-> by]

(* the options under which the statement itself is not appended *)
replacedNever(k) == FALSE
replaced(k) ==
  \/ k = "CmpF64" /\ clo_goto_shadow_branch
  \/ k = "F64toI32S" /\ clo_track_int

instrumentedBy(k) ==
  CASE k = "Put" -> "instrumentPut"
    [] k = "Load" -> "instrumentLoad"
    [] k = "NegF64" -> "instrumentUnOp"
    [] k = "Add64F0x2" -> "instrumentBinOp"
    [] k = "CmpF64" -> "instrumentCmpF64"
    [] k = "F64toI32S" -> "instrumentCvtOp"
    [] k = "Mux0X" -> "instrumentMux0X"
    [] k = "Store" -> "instrumentStore"
    [] OTHER -> "none"

(* the evaluators' instrument functions return at once in an ignored library *)
emitsCallback(k, inLib) ==
  IF k \in {"NegF64", "Add64F0x2"} THEN ~inLib
  ELSE IF k = "CmpF64" THEN clo_goto_shadow_branch /\ ~inLib
  ELSE IF k = "F64toI32S" THEN clo_track_int /\ ~inLib
  ELSE instrumentedBy(k) # "none"

emitStmt(i, k, inLib) ==
  (IF k = "NoOp" \/ replaced(k) THEN <<>> ELSE <<stmtAt(i)>>)
  \o (IF emitsCallback(k, inLib) THEN <<addedAt(i, instrumentedBy(k))>> ELSE <<>>)

RECURSIVE emitFrom(_, _, _)
emitFrom(b, i, inLib) ==
  IF i > Len(b) THEN <<>>
  ELSE emitStmt(i, b[i], IF isIMark(b[i])
                         THEN clo_ignoreLibraries /\ b[i] = "IMarkLib" ELSE inLib)
       \o emitFrom(b, i + 1, IF isIMark(b[i])
                             THEN clo_ignoreLibraries /\ b[i] = "IMarkLib" ELSE inLib)

emitted(b) ==
  [i \in 1 .. (firstIMark(b) - 1) |-> stmtAt(i)]
  \o <<addedAt(0, "instrumentEnterSB")>>
  \o emitFrom(b, firstIMark(b), FALSE)

fd_instrument ==
  /\ sbOut = <<>>
  /\ sbOut' = emitted(sbIn)
  /\ UNCHANGED <<clo_analyze, clo_simulateOriginal, clo_computeMeanValue,
                 clo_ignore_end, clo_detect_pso, unitExp, clo_goto_shadow_branch,
                 clo_track_int, clo_ignoreLibraries, sbIn, introducedError, tmpInReg,
                 blockVars,
                 storeVars,
                 guestVars, evalVars, assertFailed, lastOp, histVars>>

InitInstr ==
  /\ InitRun({FALSE}, {FALSE}, {FALSE}, {FALSE}, {0}, {FALSE, TRUE})
  /\ clo_track_int \in BOOLEAN
  /\ clo_ignoreLibraries \in BOOLEAN
  /\ sbIn \in Blocks
  /\ sbOut = <<>>
  /\ introducedError = RelNaN

NextInstr == fd_instrument

SpecInstr == InitInstr /\ [][NextInstr]_vars

(* the positions of the input's statements that the output holds as they *)
(* are, in the order of the output                                       *)
copiedPositions ==
  LET copies == SelectSeq(sbOut, LAMBDA x : x.tag = "stmt")
  IN [n \in 1 .. Len(copies) |-> copies[n].pos]

RECURSIVE ascending(_, _)
ascending(S, from) ==
  IF \A i \in S : i < from THEN <<>>
  ELSE IF from \in S THEN <<from>> \o ascending(S, from + 1)
  ELSE ascending(S, from + 1)

isNoOp(i) == i >= firstIMark(sbIn) /\ sbIn[i] = "NoOp"

(* C20 as stated: whatever the options, the translated block holds every *)
(* statement of the input block (the NoOps aside) as it is, in the       *)
(* original order.                                                       *)
C20_Verbatim ==
  sbOut # <<>> =>
    copiedPositions = ascending({i \in 1 .. Len(sbIn) : ~isNoOp(i)}, 1)

(* the statements the translation does not append as they are: after the *)
(* preamble, a CmpF64 assignment in the shadow-branch mode and a          *)
(* conversion to an integer in the track-int mode                         *)
notCopied(i) ==
  /\ i >= firstIMark(sbIn)
  /\ \/ sbIn[i] = "CmpF64" /\ clo_goto_shadow_branch
     \/ sbIn[i] = "F64toI32S" /\ clo_track_int

inIgnoredLibrary(i) ==
  /\ clo_ignoreLibraries
  /\ \E m \in 1 .. i :
       /\ sbIn[m] = "IMarkLib"
       /\ \A j \in (m + 1) .. i : ~isIMark(sbIn[j])

(* C20, amended: the translated block holds, as they are and in the      *)
(* original order, all statements of the input block (the NoOps aside)   *)
(* except the CmpF64 assignments in the shadow-branch mode and the        *)
(* conversions to an integer in the track-int mode; in place of such a    *)
(* CmpF64 or conversion stands the callback that writes its result temp,  *)
(* and nothing at all where the instruction lies in an ignored library.   *)
C20_VerbatimUnlessReplaced ==
  sbOut # <<>> =>
    /\ copiedPositions =
         ascending({i \in 1 .. Len(sbIn) : ~isNoOp(i) /\ ~notCopied(i)}, 1)
    /\ \A i \in 1 .. Len(sbIn) :
         notCopied(i) =>
           ((\E n \in 1 .. Len(sbOut) : sbOut[n].tag = "added" /\ sbOut[n].pos = i)
            <=> ~inIgnoredLibrary(i))

C20_Witness ==
  /\ sbOut # <<>>
  /\ clo_goto_shadow_branch
  /\ Len(sbIn) = 3
  /\ sbIn[1] = "IMark" /\ sbIn[2] = "CmpF64" /\ sbIn[3] = "Exit"
  /\ copiedPositions = <<1, 3>>

(* ---- the toggle specification: BEGIN and END around the callbacks ---- *)
InitToggle == InitFlags({FALSE}, {TRUE}, {FALSE, TRUE}, {TRUE}, {0})

TogEnterSB == instrumentEnterSB(1)
TogProduce ==
  processBinOp(1, "Iop_Add32F0x4", 0, NoTmp, F32(BigFloat), NoTmp, F32(Fin(1)),
               orgArith("Iop_Add32F0x4", F32(BigFloat), F32(Fin(1))))
TogStore == \E d \in {0, NoTmp} : processStore(1, d, F32(Five))
TogLoad == processLoad(1, 1)
TogPut == \E d \in {0, NoTmp} : processPut(0, d)
TogGet == processGet(0, 1, F32(Five))
TogBegin == beginAnalyzing
TogEnd == endAnalyzing
TogBeginRun == beginOneRun

NextToggle ==
  \/ TogEnterSB \/ TogProduce \/ TogStore \/ TogLoad \/ TogPut \/ TogGet
  \/ TogBegin \/ TogEnd \/ TogBeginRun

SpecToggle == InitToggle /\ [][NextToggle]_vars

(* an entry of a carrier table that a step allocated or made present *)
activated(old, new) ==
  \E k \in DOMAIN new : (new[k].alloc /\ ~old[k].alloc) \/ (readable(new[k]) /\ ~readable(old[k]))

(* C21: while the analysis is off (after an END that is not ignored and *)
(* before the next BEGIN) no step of a callback allocates a shadow      *)
(* value, writes a temp's shadow value or makes a register's or a       *)
(* memory address's shadow value present, and no evaluator changes      *)
(* meanValues or the detector's counters.                               *)
C21_AnalysisOff ==
  [][(~clo_analyze /\ ~clo_analyze' /\ lastOp'.kind # "PSO_BEGIN_RUN") =>
       /\ localTemps' = localTemps
       /\ ~activated(threadRegisters, threadRegisters')
       /\ ~activated(globalMemory, globalMemory')
       /\ avMallocs' = avMallocs
       /\ meanValues' = meanValues
       /\ errorMap' = errorMap
       /\ findFirstPSO' = findFirstPSO]_vars

C21_Witness ==
  /\ ~clo_analyze
  /\ lastOp.kind = "BinOp"
  /\ readable(threadRegisters[<<tid, 0>>])
  /\ meanValues[1].count > 0
  /\ errorMap.nodes[1].totalCnt > 0


(* ---- the drift check at the operand reads ---- *)
(* the operand entries of the last evaluation that hold a shadow value *)
checkedOperands ==
  {i \in DOMAIN lastOp.args :
     lastOp.args[i] # NoTmp /\ lastOp.args[i] # lastOp.wrTmp
       /\ lastArg(i).alloc /\ lastArg(i).orgType # "Ot_INVALID"}

(* C22: in every evaluator, each temp operand that has a present shadow  *)
(* value has been passed through checkAndRecover before its channels are *)
(* consumed: after the evaluation the operand's entry is the recovered   *)
(* one and the scratch slots hold its three channels.                    *)
C22_RecoverAtRead ==
  (lastOp.kind \in Evaluations /\ lastOp.gotSV) =>
    \A i \in checkedOperands :
      /\ checkAndRecover(lastArg(i)) = lastArg(i)
      /\ argX[lastSlot(i)[3]].x = lastArg(i).oriValue.x


(* ---- the precisions of the shadow values held by the carriers ---- *)
nominal(sv) ==
  /\ sv.midValue.prec \in {FLOAT_PRECISION, DOUBLE_PRECISION}
  /\ sv.oriValue.prec \in {FLOAT_PRECISION, DOUBLE_PRECISION}

(* C23: every shadow value reachable from a carrier (a temp of the      *)
(* running block, a register slot, a memory address), the copies made   *)
(* by Store, Put, Load and Get included, has midValue and oriValue at   *)
(* the guest's nominal precision, 24 or 53.                             *)
C23_NominalPrecision ==
  /\ \A t \in Temps : getTemp(t).alloc => nominal(getTemp(t))
  /\ \A k \in DOMAIN threadRegisters :
       readable(threadRegisters[k]) => nominal(threadRegisters[k])
  /\ \A a \in DOMAIN globalMemory :
       readable(globalMemory[a]) => nominal(globalMemory[a])


(* ---- the exact bits of the operands and the cancellation badness ---- *)
clo_bad_cancellations == TRUE

(* exactBitsArg as initialised for the operation *)
exactBitsInit(op) == IF isOpFloat(op) THEN FLOAT_PRECISION - 1 ELSE DOUBLE_PRECISION - 1

(* the clamp of the binary handler: from above, by the operand's type *)
clampAbove(bits, orgType) ==
  IF orgType = "Ot_FLOAT" /\ bits > FLOAT_PRECISION - 1 THEN FLOAT_PRECISION - 1
  ELSE IF orgType = "Ot_DOUBLE" /\ bits > DOUBLE_PRECISION - 1 THEN DOUBLE_PRECISION - 1
  ELSE bits

(* the exact bits of one operand: sv its shadow value, tmpX the scratch *)
(* value read from it, cancelTemp the guest value of the operand        *)
exactBits(op, sv, tmpX, cancelTemp) ==
  IF ~(sv.alloc /\ clo_bad_cancellations) THEN exactBitsInit(op)
  ELSE IF mpfr_get_exp(cancelTemp.x) # mpfr_get_exp(tmpX.x) THEN 0
  ELSE IF mpfr_cmp_ui0(NumSub(tmpX.x, cancelTemp.x)) = 0 THEN exactBitsInit(op)
  ELSE clampAbove(AbsInt(mpfr_get_exp(tmpX.x)
                           - mpfr_get_exp(mpfr_set(cancelTemp,
                                                   NumSub(tmpX.x, cancelTemp.x)).x)) - 2,
                  sv.orgType)

(* the exact bits of operand i of the last evaluation *)
exactBitsArg(i) ==
  IF lastOp.args[i] = NoTmp THEN exactBitsInit(lastOp.op)
  ELSE exactBits(lastOp.op, lastArg(i), argX[lastSlot(i)[1]],
                 readSTemp(mpfr_init(DEFAULT_PRECISION), guestTmp[lastOp.srcs[i]]))

(* the badness handed to updateMeanValue by the last evaluation *)
cancellationBadness ==
  LET least == IF exactBitsArg(1) < exactBitsArg(2) THEN exactBitsArg(1)
               ELSE exactBitsArg(2)
  IN IF clo_bad_cancellations /\ lastOp.canceled > 0 /\ lastOp.canceled > least
     THEN lastOp.canceled - least ELSE 0

(* ---- the cancellation specification: float operations whose shadow ---- *)
(* value and guest value drift apart, then cancel                         *)
ExactConsts == {F32(Fin(2)), F32(Fin(Pow2(FLOAT_PRECISION) - 2))}

InitExact == InitOpts({FALSE, TRUE}, {TRUE}, {FALSE})

ExactEnterSB == instrumentEnterSB(1)
ExactProduce ==
  processBinOp(1, "Iop_Add32F0x4", 0, NoTmp, F32(BigFloat), NoTmp, F32(Fin(1)),
               orgArith("Iop_Add32F0x4", F32(BigFloat), F32(Fin(1))))
ExactSub ==
  \E src \in Temps, c \in ExactConsts :
    processBinOp(2, "Iop_Sub32F0x4", 1, src, c, NoTmp, c,
                 orgArith("Iop_Sub32F0x4", guestTmp[src], c))
ExactStore == processStore(1, 1, F32(Five))
ExactLoad == processLoad(0, 1)

NextExact ==
  \/ ExactEnterSB \/ ExactProduce \/ ExactSub \/ ExactStore \/ ExactLoad

SpecExact == InitExact /\ [][NextExact]_vars

(* C24: the exact bits computed for each operand lie in [0, nominal      *)
(* mantissa bits of the op], so the cancellation badness of a binary     *)
(* operation never exceeds the bits the operation cancelled.             *)
C24_ExactBitsRange ==
  (lastOp.kind = "BinOp" /\ lastOp.gotSV) =>
    /\ \A i \in 1 .. 2 :
         exactBitsArg(i) >= 0 /\ exactBitsArg(i) <= exactBitsInit(lastOp.op)
    /\ cancellationBadness <= lastOp.canceled


(* ---- the introduced error of an origin ---- *)
(* mpfr_sub on relative errors, the result signed *)
relSub(a, b) ==
  IF a.k = "nan" \/ b.k = "nan" THEN RelNaN
  ELSE IF a.k = "inf" THEN (IF b.k = "inf" THEN RelNaN ELSE RelInf)
  ELSE IF b.k = "inf" THEN [n |-> 0 - 1, k |-> "inf", d |-> 1]
  ELSE IF a.d = b.d
       THEN [n |-> (a.n - b.n) \div Gcd(AbsInt(a.n - b.n), a.d), k |-> "fin",
             d |-> a.d \div Gcd(AbsInt(a.n - b.n), a.d)]
  ELSE [n |-> (a.n * b.d - b.n * a.d) \div Gcd(AbsInt(a.n * b.d - b.n * a.d), a.d * b.d),
        k |-> "fin",
        d |-> (a.d * b.d) \div Gcd(AbsInt(a.n * b.d - b.n * a.d), a.d * b.d)]

(* the value getIntroducedError leaves in its out-parameter for the entry *)
(* mv of origin key; e1 and e2 are the maxima of the entries of its args  *)
introduced(key, mv, e1, e2) ==
  IF mv.arg1 # 0 /\ mv.arg2 # 0
  THEN IF mv.arg1 = key /\ mv.arg2 = key THEN mv.max
       ELSE IF relGreater(e1, e2)
       THEN IF relGreater(mv.max, e1) \/ relGreater(mv.max, e2)
            THEN (IF mv.arg1 = key THEN mv.max ELSE relSub(mv.max, e1))
            ELSE relSub(mv.max, e2)
       ELSE IF relGreater(mv.max, e2) \/ relGreater(mv.max, e1)
            THEN (IF mv.arg2 = key THEN mv.max ELSE relSub(mv.max, e2))
            ELSE relSub(mv.max, e1)
  ELSE IF mv.arg1 # 0
  THEN (IF mv.arg1 = key THEN mv.max ELSE relSub(mv.max, e1))
  ELSE IF mv.arg2 # 0
  THEN (IF mv.arg2 = key THEN mv.max ELSE relSub(mv.max, e2))
  ELSE mv.max

(* the maximum of the entry of an argument origin *)
maxOf(arg) == IF arg = 0 THEN RelZero ELSE meanValues[arg].max

getIntroducedError(key) ==
  /\ ~assertFailed /\ meanValues[key].count > 0
  /\ lastOp.kind # "getIntroducedError"
  /\ LET mv == meanValues[key]
         missing == \E a \in {mv.arg1, mv.arg2} : a # 0 /\ meanValues[a].count = 0
     IN /\ assertFailed' = missing
        /\ introducedError' = IF missing THEN RelZero
                               ELSE introduced(key, mv, maxOf(mv.arg1), maxOf(mv.arg2))
  /\ lastOp' = [NoOp EXCEPT !.kind = "getIntroducedError", !.addr = key]
  /\ UNCHANGED <<clo_analyze, clo_simulateOriginal, clo_computeMeanValue,
                 clo_ignore_end, clo_detect_pso, unitExp, clo_goto_shadow_branch,
                 clo_track_int, clo_ignoreLibraries, sbIn, sbOut, tmpInReg, blockVars,
                 storeVars, guestVars, evalVars, histVars>>

(* ---- the introduced-error specification: a table of three origins, ---- *)
(* the first with any pair of argument origins                            *)
IntroMaxes == {RelZero, RelFin(1, 4), RelFin(1, 2)}

IntroTables ==
  {[o \in Origins |->
      IF o = 1 THEN [NoMean EXCEPT !.count = 1, !.max = m[1],
                                   !.arg1 = a[1], !.arg2 = a[2]]
      ELSE IF o <= 3 THEN [NoMean EXCEPT !.count = 1, !.max = m[o]]
      ELSE NoMean] :
     m \in [1 .. 3 -> IntroMaxes], a \in [1 .. 2 -> 0 .. 3]}

InitIntro ==
  \E table \in IntroTables :
    /\ InitButMeans({FALSE}, {TRUE}, {FALSE}, {FALSE}, {0}, {FALSE})
    /\ clo_track_int = FALSE
    /\ clo_ignoreLibraries = FALSE
    /\ sbIn = <<>>
    /\ sbOut = <<>>
    /\ introducedError = RelNaN
    /\ meanValues = table

NextIntro == \E key \in Origins : getIntroducedError(key)

SpecIntro == InitIntro /\ [][NextIntro]_vars

(* the residual: the own maximum when a parent is the origin itself, *)
(* else the own maximum minus the larger parent's maximum            *)
residual(key, mv) ==
  IF (mv.arg1 # 0 /\ mv.arg1 = key) \/ (mv.arg2 # 0 /\ mv.arg2 = key) THEN mv.max
  ELSE IF mv.arg1 # 0 /\ mv.arg2 # 0
  THEN relSub(mv.max, relMax(maxOf(mv.arg1), maxOf(mv.arg2)))
  ELSE IF mv.arg1 # 0 THEN relSub(mv.max, maxOf(mv.arg1))
  ELSE IF mv.arg2 # 0 THEN relSub(mv.max, maxOf(mv.arg2))
  ELSE mv.max

(* C25: the introduced error of an origin is its own maximum when a      *)
(* parent origin is the origin itself; otherwise its own maximum minus   *)
(* the larger parent's maximum (two parents) or minus the one parent's   *)
(* maximum, whatever the order of the three maxima.                      *)
C25_IntroducedError ==
  lastOp.kind = "getIntroducedError" =>
    introducedError = residual(lastOp.addr, meanValues[lastOp.addr])


(* ---- the collection specification: a run of the detector that has ---- *)
(* counted two origins, then ends                                        *)
MaxTotalCnt == 10
CollectTotals == {1, 3} \cup (10 .. MaxTotalCnt)
CollectCounts ==
  {NoErrorCount} \cup
  {[errCnt |-> e, ovCnt |-> v, totalCnt |-> t, present |-> TRUE] :
     t \in CollectTotals, e \in 0 .. MaxTotalCnt, v \in 0 .. MaxTotalCnt}

InitCollect ==
  \E c1 \in CollectCounts, c2 \in CollectCounts :
    /\ c1.ovCnt <= c1.errCnt /\ c1.errCnt <= c1.totalCnt
    /\ c2.ovCnt <= c2.errCnt /\ c2.errCnt <= c2.totalCnt
    /\ InitButTables({FALSE}, {FALSE}, {FALSE}, {TRUE}, {0}, {FALSE})
    /\ clo_track_int = FALSE
    /\ clo_ignoreLibraries = FALSE
    /\ sbIn = <<>>
    /\ sbOut = <<>>
    /\ introducedError = RelNaN
    /\ meanValues = [o \in Origins |-> NoMean]
    /\ errorMap = [nodes |-> [o \in Origins |->
                                IF o = 1 THEN c1 ELSE IF o = 2 THEN c2
                                ELSE NoErrorCount],
                   table |-> "live"]

CollectBeginRun == beginOneRun
CollectEndRun == \E freedCrash \in BOOLEAN : endOneRun(freedCrash)

NextCollect == CollectBeginRun \/ CollectEndRun

SpecCollect == InitCollect /\ [][NextCollect]_vars

getInstead(offset, tmp, g) ==
  /\ ~assertFailed /\ inBlock /\ tmp \notin assigned
  /\ tmpInReg[offset] >= 0
  /\ assigned' = assigned \cup {tmp}
  /\ guestTmp' = [guestTmp EXCEPT ![tmp] = g]
  /\ tmpInstead' = [tmpInstead EXCEPT ![tmp] = insteadOf(tmpInReg[offset])]
  /\ lastOp' = [NoOp EXCEPT !.kind = "GetInstead", !.addr = offset, !.wrTmp = tmp,
                            !.args = <<insteadOf(tmpInReg[offset])>>]
  /\ UNCHANGED <<clo_analyze, optVars, sbExecuted, inBlock, tid, storeVars,
                 guestMem, evalVars, assertFailed, histVars>>

instrumentGet(offset, tmp, g) ==
  IF tmpInReg[offset] >= 0 THEN getInstead(offset, tmp, g)
  ELSE processGet(offset, tmp, g)

(* ---- the substitution specification: a result is put to a register, ---- *)
(* the register is written again by a Put or a PutI, and a Get reads it    *)
InitSubst == InitOpts({FALSE}, {FALSE}, {FALSE})

SubstEnterSB == instrumentEnterSB(1)
SubstProduce ==
  \E c \in {F64(Five), F64(BigDouble)} :
    processBinOp(1, "Iop_Add64F0x2", 0, NoTmp, c, NoTmp, F64(Fin(1)),
                 orgArith("Iop_Add64F0x2", c, F64(Fin(1))))
SubstPut == \E o \in Offsets, d \in {0, NoTmp} : processPut(o, d)
SubstPutI == \E d \in {0, NoTmp} : processPutI(d, 0, 1, 0, 0)
SubstGet == \E o \in Offsets : instrumentGet(o, 1, F64(Five))
SubstStore == processStore(1, 1, F64(Five))
SubstLoad == processLoad(0, 1)

NextSubst ==
  \/ SubstEnterSB \/ SubstProduce \/ SubstPut \/ SubstPutI \/ SubstGet
  \/ SubstStore \/ SubstLoad

SpecSubst == InitSubst /\ [][NextSubst]_vars

(* C29: a temp t that the instrumenter resolved to tmpInstead[t] = s at   *)
(* a Get, and for which it emitted no callback, gives its consumers the   *)
(* shadow value, or the absence of one, that the register slot holds at   *)
(* that point of the block, whatever wrote the register since the Put.    *)
C29_SubstitutionSound ==
  lastOp.kind = "GetInstead" =>
    LET s == getTemp(tmpInstead[lastOp.wrTmp])
        av == threadRegisters[<<tid, lastOp.addr>>]
    IN IF readable(av) THEN s.alloc /\ sameShadow(s, av) ELSE ~s.alloc


(* ---- the backward pass of the instrumenter ---- *)
(* a block of the translation specification is read as a chain: the temp *)
(* operand of a statement is the temp that the statement before it wrote *)
writesTmp(k) == k \in {"Load", "NegF64", "Add64F0x2", "CmpF64", "F64toI32S", "Mux0X"}

(* the statements at which the backward pass sets impTmp of the operand to 1 *)
marksOperand(k) ==
  k \in {"Put", "Store", "NegF64", "Add64F0x2", "CmpF64", "F64toI32S"}

RECURSIVE backward(_, _, _)
backward(b, j, imp) ==
  IF j < firstIMark(b) THEN imp
  ELSE backward(b, j - 1,
                IF marksOperand(b[j]) /\ j > 1 /\ writesTmp(b[j - 1])
                THEN [imp EXCEPT ![j - 1] = 1] ELSE imp)

(* impTmp after the backward pass, by the position that writes the temp *)
impTmp(b) == backward(b, Len(b), [i \in 1 .. Len(b) |-> 0])

callbackAt(i) ==
  \E n \in DOMAIN sbOut : sbOut[n].tag = "added" /\ sbOut[n].pos = i

(* C30: the callbacks emitted for a block follow the backward pass: a   *)
(* Load or an operation whose destination temp is left unimportant gets *)
(* no shadow callback, and every important one gets its callback.       *)
C30_ImportanceDecides ==
  sbOut # <<>> =>
    \A i \in firstIMark(sbIn) .. Len(sbIn) :
      (sbIn[i] \in {"Load", "NegF64", "Add64F0x2"} /\ ~inIgnoredLibrary(i)) =>
        (callbackAt(i) <=> impTmp(sbIn)[i] = 1)


(* ---- the translation of a ternary operation ---- *)
TriOps == {"AddF64", "SubF64", "MulF64", "DivF64"}
ConstArg == [tmp |-> NoTmp, tag |-> "Const"]
TmpArg(t) == [tmp |-> t, tag |-> "RdTmp"]
TriArgs == {ConstArg} \cup {TmpArg(t) : t \in Temps}

(* the ternary statements of a flat block: the destination temp is none *)
(* of the operand temps; lib tells whether the address is in a library  *)
TriStmts ==
  {st \in [op : TriOps, arg1 : TriArgs, arg2 : TriArgs, arg3 : TriArgs,
           wrTmp : Temps, lib : BOOLEAN] :
     st.wrTmp \notin {st.arg1.tmp, st.arg2.tmp, st.arg3.tmp}}

triStore(field, v) == [tag |-> "added", pos |-> v, by |-> field]

(* the statements that pass one operand: the temp number and the guest *)
(* value of a temp, or the value of a constant                         *)
triOperand(arg, field, slot) ==
  IF arg.tag = "RdTmp"
  THEN <<triStore(field, insteadOf(arg.tmp)), triStore("writeSTemp", slot)>>
  ELSE <<triStore("writeSConst", slot)>>

triConstArgs(st) ==
  (IF st.arg2.tag = "Const" THEN 2 ELSE 0) + (IF st.arg3.tag = "Const" THEN 4 ELSE 0)

triEmitted(st) ==
  <<triStore(st.op, 0), triStore("triOpArgs.wrTmp", st.wrTmp)>>
  \o triOperand(st.arg2, "triOpArgs.arg2", 1)
  \o triOperand(st.arg3, "triOpArgs.arg3", 2)
  \o <<triStore("triOpArgs.orgDouble", st.wrTmp),
       triStore("processTriOp", triConstArgs(st))>>

(* the Iex_Triop case of fd_instrument with instrumentTriOp: the statement *)
(* is copied, then the stores and the call are added unless the address    *)
(* is in an ignored library; the first operand is asserted to be constant  *)
instrumentTriOp ==
  /\ sbOut = <<>>
  /\ LET st == sbIn[1]
     IN IF clo_ignoreLibraries /\ st.lib
        THEN sbOut' = <<stmtAt(1)>> /\ UNCHANGED assertFailed
        ELSE IF st.arg1.tag # "Const"
        THEN sbOut' = <<stmtAt(1)>> /\ assertFailed' = TRUE
        ELSE sbOut' = <<stmtAt(1)>> \o triEmitted(st) /\ UNCHANGED assertFailed
  /\ UNCHANGED <<clo_analyze, clo_simulateOriginal, clo_computeMeanValue,
                 clo_ignore_end, clo_detect_pso, unitExp, clo_goto_shadow_branch,
                 clo_track_int, clo_ignoreLibraries, sbIn, introducedError, tmpInReg,
                 blockVars,
                 storeVars,
                 guestVars, evalVars, lastOp, histVars>>

InitTriop ==
  /\ InitRun({FALSE}, {FALSE}, {FALSE}, {FALSE}, {0}, {FALSE})
  /\ clo_track_int = FALSE
  /\ clo_ignoreLibraries \in BOOLEAN
  /\ sbIn \in {<<st>> : st \in TriStmts}
  /\ sbOut = <<>>
  /\ introducedError = RelNaN

NextTriop == instrumentTriOp

SpecTriop == InitTriop /\ [][NextTriop]_vars

(* C31: the translation of a ternary add, sub, mul or div succeeds and *)
(* adds the same stores and the same call to the evaluator whether the *)
(* first operand, the rounding mode, is a constant or a temp.          *)
C31_RoundingModeIgnored ==
  (sbOut # <<>> /\ ~(clo_ignoreLibraries /\ sbIn[1].lib)) =>
    /\ ~assertFailed
    /\ sbOut = <<stmtAt(1)>> \o triEmitted([sbIn[1] EXCEPT !.arg1 = ConstArg])


(* ---- the client requests that read the shadow value of an address ---- *)
ReadRequests == {"PRINT_ERROR", "ERROR_GREATER", "GET_SHADOW", "GET_RELATIVE_ERROR"}

(* printError, isErrorGreater, getShadow and getRelativeError look the   *)
(* address up in globalMemory and take the branch of a shadow value when *)
(* the entry exists; all but getShadow assert its orgType first          *)
readShadow(kind, addr) ==
  LET svalue == globalMemory[addr]
  IN /\ clientFrame
     /\ lastOp' = [requestOp(kind, addr) EXCEPT !.gotSV = svalue.alloc]
     /\ assertFailed' = (/\ kind # "GET_SHADOW"
                         /\ svalue.alloc
                         /\ svalue.orgType = "Ot_INVALID")
     /\ UNCHANGED <<clo_analyze, storeVars, guestMem>>

ReadShadow == \E kind \in ReadRequests, a \in Addrs : readShadow(kind, a)

NextRead == EnterSB \/ Produce \/ Store \/ Reset \/ ReadShadow

SpecRead == Init /\ [][NextRead]_vars

(* C32: for an address whose shadow value in memory is deactivated (by a *)
(* Store without a shadow value or by RESET) and not activated again,    *)
(* PRINT_ERROR, ERROR_GREATER, GET_SHADOW and GET_RELATIVE_ERROR answer  *)
(* as for an address without a shadow value.                             *)
C32_RequestsRespectActive ==
  (lastOp.kind \in ReadRequests /\ ~readable(globalMemory[lastOp.addr]))
    => ~lastOp.gotSV


(* C33: with detect-pso on, every evaluation whose analyzePSO call looks *)
(* its origin up in errorMap (the detector is neither past its first     *)
(* finding nor finished, and the origin is not in detectedPSO) runs      *)
(* while the table of the current run exists.                            *)
C33_ErrorMapExists ==
  [][(/\ lastOp'.kind \in {"BinOp", "TriOp"} /\ lastOp'.gotSV
      /\ clo_detect_pso /\ ~findFirstPSO /\ ~finishPSO
      /\ ~detectedPSO[lastOp'.addr].present)
       => errorMap.table = "live"]_vars


(* ---- stages that are cleared at any time ---- *)
MaxClearIterations == 4
MaxReportCount == 2
MaxActiveStages == 2
MaxClearBlocks == 6

ClearEnterSB == enterSB(1, MaxClearBlocks)
ClearBegin ==
  \E num \in Stages :
    /\ stages[num].count < MaxClearIterations
    /\ activeStages < MaxActiveStages
    /\ stageStart(num)
ClearEnd ==
  \E num \in Stages :
    /\ \A a \in Addrs : stageReports[num].nodes[a].count < MaxReportCount
    /\ stageEnd(num)
ClearClear == \E num \in Stages : stageClear(num)

NextClear ==
  \/ ClearEnterSB \/ StageProduce \/ StageStore
  \/ ClearBegin \/ ClearEnd \/ ClearClear

SpecClear == InitStage /\ [][NextClear]_vars

(* C34: after BEGIN_STAGE, END_STAGE and CLEAR_STAGE requests that did *)
(* not abort, activeStages is the number of the stages that are active *)
C34_ActiveStagesCounted ==
  ~assertFailed =>
    activeStages = Cardinality({i \in Stages : stages[i].exists /\ stages[i].active})

(* C35: every stage report has iterMin <= iterMax, also when the stage *)
(* was cleared and ran new iterations.                                 *)
C35_IterMinMax ==
  \A num \in Stages, a \in Addrs :
    stageReports[num].nodes[a].present =>
      stageReports[num].nodes[a].iterMin <= stageReports[num].nodes[a].iterMax


(* ---- the type of the original value of the shadow values ---- *)
OrgEnterSB == instrumentEnterSB(1)
OrgUnOp ==
  processUnOp(3, "Iop_NegF64", 1, 0, GuestZero, orgUnary("Iop_NegF64", guestTmp[0]))
OrgTriOp ==
  processTriOp(2, "Iop_AddF64", 1, 0, GuestZero, NoTmp, F64(Four),
               orgArith("Iop_AddF64", guestTmp[0], F64(Four)))
OrgMux ==
  \E condVal \in 0 .. 1 : processMux0X(1, condVal, 0, F64(Five), NoTmp, F64(Five))

OrgRead == \E a \in Addrs : readShadow("ERROR_GREATER", a)

NextOrg ==
  \/ OrgEnterSB \/ Load \/ Store \/ Put \/ Get
  \/ Produce \/ OrgUnOp \/ OrgTriOp \/ OrgMux
  \/ Reset \/ OrgRead \/ TripToShadow

SpecOrg == Init /\ [][NextOrg]_vars

validOrgType(sv) == sv.alloc => sv.orgType \in {"Ot_FLOAT", "Ot_DOUBLE"}

(* C36: every shadow value that can be observed, a temp's of the current *)
(* version, a register slot's or one in the memory table, has orgType    *)
(* Ot_FLOAT or Ot_DOUBLE, so that no evaluation and no request that      *)
(* asserts the orgType of the shadow value it reads aborts.              *)
C36_OrgTypeValid ==
  /\ \A t \in Temps : validOrgType(getTemp(t))
  /\ \A r \in Threads \X Offsets : validOrgType(threadRegisters[r])
  /\ \A a \in Addrs : validOrgType(globalMemory[a])
  /\ ~assertFailed

(* a request reads the entry of an address while a temp and a register *)
(* slot hold shadow values as well                                     *)
C36_Witness ==
  /\ lastOp.kind = "ERROR_GREATER" /\ lastOp.gotSV
  /\ \E t \in Temps : getTemp(t).alloc
  /\ \E r \in Threads \X Offsets : threadRegisters[r].alloc


(* ---- the parents of the mean-value table: statistics on, an exact sum, ---- *)
(* an inexact sum of it and a negation of earlier results, which also      *)
(* travel through memory, RESET, and the walk over the parents of an       *)
(* origin                                                                  *)
ClosedEnterSB == instrumentEnterSB(1)
ClosedProduce ==
  processBinOp(1, "Iop_Add32F0x4", 0, NoTmp, F32(Four), NoTmp, F32(Fin(1)),
               orgArith("Iop_Add32F0x4", F32(Four), F32(Fin(1))))
ClosedAdd ==
  processBinOp(4, "Iop_Add32F0x4", 1, 0, GuestZero, NoTmp, F32(BigFloat),
               orgArith("Iop_Add32F0x4", guestTmp[0], F32(BigFloat)))
ClosedNeg ==
  \E t \in Temps, src \in Temps :
    processUnOp(3, "Iop_NegF32", t, src, GuestZero,
                orgUnary("Iop_NegF32", guestTmp[src]))
ClosedStore == \E d \in Temps : processStore(1, d, GuestZero)
ClosedLoad == processLoad(1, 1)
ClosedIntro == \E key \in Origins : getIntroducedError(key)

NextClosed ==
  \/ ClosedEnterSB \/ ClosedProduce \/ ClosedAdd \/ ClosedNeg
  \/ ClosedStore \/ ClosedLoad \/ Reset \/ ClosedIntro

SpecClosed == InitMean /\ [][NextClosed]_vars

(* C37: with the statistics on, every nonzero arg1 / arg2 origin of an  *)
(* entry of meanValues is itself a key of meanValues, so that the walk  *)
(* over the parents of an origin never aborts.                          *)
C37_ParentsAreKeys ==
  /\ \A o \in Origins :
       \A a \in {meanValues[o].arg1, meanValues[o].arg2} :
         (meanValues[o].count > 0 /\ a # 0) => meanValues[a].count > 0
  /\ lastOp.kind = "getIntroducedError" => ~assertFailed

(* the walk at an origin whose parent is another origin *)
C37_Witness ==
  /\ lastOp.kind = "getIntroducedError"
  /\ meanValues[lastOp.addr].arg1 \notin {0, lastOp.addr}


(* the entries of the output that assign the temp of statement i: the *)
(* statement itself, or the callback that stands in its place, whose  *)
(* result is the temp                                                 *)
assignsTmp(n, i) ==
  /\ sbOut[n].pos = i
  /\ \/ sbOut[n].tag = "stmt"
     \/ sbOut[n].tag = "added" /\ i >= firstIMark(sbIn) /\ replaced(sbIn[i])

(* C38: every temp that a statement of the input block assigns is       *)
(* assigned exactly once in the translated block, by the statement or   *)
(* by the callback in its place, whatever the three options are and     *)
(* whether or not the instruction lies in a library.                    *)
C38_AssignedOnce ==
  sbOut # <<>> =>
    \A i \in 1 .. Len(sbIn) :
      writesTmp(sbIn[i]) =>
        Cardinality({n \in DOMAIN sbOut : assignsTmp(n, i)}) = 1


(* ---- stage requests with an index outside the table ---- *)
(* stageStart asserts num < MAX_STAGES and nothing else: a negative index *)
(* passes and the entry before the table is read and written. stageEnd    *)
(* and stageClear test the entry at num without a test of num. The entry  *)
(* read outside the table is NULL or garbage: a BEGIN_STAGE either finds  *)
(* it active and aborts or counts one more active stage, an END_STAGE     *)
(* aborts on NULL or ends the garbage stage (taken here with a counter    *)
(* above 0), a CLEAR_STAGE returns on NULL or frees garbage and crashes.  *)
stageOutside(kind, num, aborts) ==
  /\ baseFrame
  /\ lastOp' = [NoOp EXCEPT !.kind = kind, !.addr = num,
                            !.ret = IF kind = "BEGIN_STAGE" /\ num >= MAX_STAGES
                                    THEN "rejected" ELSE "outside"]
  /\ assertFailed' = (aborts \/ (kind = "BEGIN_STAGE" /\ num >= MAX_STAGES))
  /\ activeStages' =
       IF aborts \/ kind = "CLEAR_STAGE" \/ (kind = "BEGIN_STAGE" /\ num >= MAX_STAGES)
       THEN activeStages
       ELSE IF kind = "BEGIN_STAGE" THEN activeStages + 1
       ELSE activeStages - 1
  /\ UNCHANGED <<clo_analyze, storeVars, guestMem, psoVars, stages, stageReports>>

RangeOutside ==
  \E kind \in {"BEGIN_STAGE", "END_STAGE", "CLEAR_STAGE"},
     num \in {0 - 1, MAX_STAGES}, aborts \in BOOLEAN :
    /\ (kind = "BEGIN_STAGE" /\ ~aborts) => activeStages < MaxActiveStages
    /\ (kind = "END_STAGE" /\ ~aborts) => activeStages > 0
    /\ stageOutside(kind, num, aborts)

NextRange == NextClear \/ RangeOutside

SpecRange == InitStage /\ [][NextRange]_vars

(* C39: a BEGIN_STAGE, END_STAGE or CLEAR_STAGE request whose index is *)
(* not in 0 .. MAX_STAGES - 1, a negative one included, is rejected    *)
(* before the stages table is read or written.                         *)
C39_IndexChecked ==
  (/\ lastOp.kind \in {"BEGIN_STAGE", "END_STAGE", "CLEAR_STAGE"}
   /\ lastOp.addr \notin 0 .. (MAX_STAGES - 1))
    => lastOp.ret = "rejected"

(* ---- a driver that repeats detection runs until told to stop ---- *)

(* isPSOFinished, the IS_PSO_FINISHED request *)
isPSOFinished ==
  /\ detectorFrame("IS_PSO_FINISHED")
  /\ UNCHANGED <<psoVars, assertFailed>>

(* what the last IS_PSO_FINISHED request returned to the driver *)
toldFinished == lastOp.kind = "IS_PSO_FINISHED" /\ (~clo_detect_pso \/ finishPSO)

inRun == errorMap.table = "live"

detected == {o \in Origins : detectedPSO[o].present}

DriverBeginRun ==
  /\ ~inRun
  /\ lastOp.kind = "IS_PSO_FINISHED" => ~toldFinished
  /\ lastOp.kind \in {"none", "IS_PSO_FINISHED"}
  /\ beginOneRun
DriverEndRun == inRun /\ endOneRun(FALSE)
DriverAsk == lastOp.kind = "PSO_END_RUN" /\ isPSOFinished
DriverBeginInstance == inRun /\ beginOneInstance
DriverEnterSB == inRun /\ instrumentEnterSB(1)
DriverProduce == inRun /\ PsoProduce
DriverCancel == inRun /\ PsoCancel
DriverCancel64 == inRun /\ PsoCancel64
DriverWiden == inRun /\ PsoWiden
DriverStore == inRun /\ PsoStore
DriverLoad == inRun /\ PsoLoad

InitDriver == InitFlags({FALSE}, {FALSE}, {FALSE}, {TRUE}, {0})

NextDriver ==
  \/ DriverBeginRun \/ DriverEndRun \/ DriverAsk \/ DriverBeginInstance
  \/ DriverEnterSB \/ DriverProduce \/ DriverCancel \/ DriverCancel64
  \/ DriverWiden \/ DriverStore \/ DriverLoad

(* the driver's loop makes progress: a run once begun is ended, and the *)
(* driver asks after every run and begins the next one when told to     *)
SpecDriver ==
  /\ InitDriver /\ [][NextDriver]_vars
  /\ WF_vars(DriverBeginRun) /\ WF_vars(DriverEndRun) /\ WF_vars(DriverAsk)

(* C40: every PSO_END_RUN that leaves IS_PSO_FINISHED false adds an    *)
(* origin to detectedPSO that was not there before and removes none,   *)
(* so a driver that repeats PSO_BEGIN_RUN ... PSO_END_RUN until        *)
(* IS_PSO_FINISHED returns true is eventually told that it is finished *)
C40_RunAddsOrigin ==
  [][(lastOp'.kind = "PSO_END_RUN" /\ ~finishPSO')
       => (/\ detected \subseteq {o \in Origins : detectedPSO'[o].present}
           /\ detected # {o \in Origins : detectedPSO'[o].present})]_vars

C40_Terminates == C40_RunAddsOrigin /\ <>toldFinished

(* a second run has just ended unfinished, adding an origin to the one *)
(* an earlier run had detected                                         *)
C40_Witness ==
  /\ lastOp.kind = "PSO_END_RUN" /\ ~finishPSO
  /\ \E o \in detected : ~errorMap.nodes[o].present
  /\ \E o \in detected : isCandidate(errorMap.nodes[o])

====
